---- MODULE Spec2Model ----
(***************************************************************************)
(* A model of the retrieval-augmented generation core of regression-scholar *)
(* (segmenter, indexer, retrieval, answer cache, answer generator, ask      *)
(* endpoint, source resolver).                                              *)
(*                                                                          *)
(* Python strings are sequences of one-character strings, so that slicing,  *)
(* joining, splitting and prefix tests are computed and not assumed.  Each  *)
(* component has its own variables and its own specification; the variables *)
(* of the other components stay at their initial value.                     *)
(***************************************************************************)
EXTENDS Integers, Sequences, FiniteSets, TLC

VARIABLES
    \* vector store (src/src/embedding.py, src/backend/src/retrieval.py)
    collection,   \* the persisted collection: a sequence of records
    corpus,       \* the chunk list handed to the last index build
    present,      \* whether the store holds a collection of the name
    bpc,          \* position inside build_vector_store
    bsize,        \* create_embeddings: batch_size of the running build
    bi,           \* create_embeddings: the loop index i (0-based)
    embedded,     \* create_embeddings: the list embeddings built so far
    prior,        \* history: the store as the running build found it
    rcall,        \* the last direct retrieve(query, k) call
    sres,         \* what the store returned to that call
    rout,         \* what retrieve returned to its caller
    scIn,         \* simple_concat_answer: the chunk texts and max_chars of the last call
    scOut,        \* simple_concat_answer: the answer it returned
    scDone,       \* whether simple_concat_answer has returned
    \* answer generator (src/src/generation.py), one entry per ScholarAI instance
    file,         \* the cache file cache/scholar_cache.json
    cache,        \* self.cache
    pc,           \* position inside generate_expert_answer
    query,        \* the argument of the running call
    chunks,       \* local: the retrieved chunks
    answer,       \* local: answer_text
    mres,         \* outcome of the model call of the running call
    ret,          \* the value returned by the call
    trace,        \* the external steps the running call has taken, in order
    served,       \* history: per query, what its last completed call returned
    saved,        \* history: per query, whether the file write of its cache write succeeded
    \* document segmenter (src/backend/src/processing.py)
    ctIn,         \* chunk_text: the arguments of the last call
    ctOut,        \* chunk_text: the list it returned
    ssIn,         \* split_into_sections: the lines of the text of the last call
    ssOut,        \* split_into_sections: the mapping it returned
    segDone,      \* whether the segmenter function under check has returned
    clIn,         \* clean_text: the text of the last call
    clOut,        \* clean_text: the text it returned
    ppIn,         \* process_all_papers: metadata_list, as positions of PaperPool
    ppi,          \* process_all_papers: the number of papers the loop has visited
    ppOut,        \* process_all_papers: all_chunks
    ppPc,         \* position inside process_all_papers
    \* source resolver (src/backend/app/services/scholar_service.py)
    csIn,         \* chunks_to_sources: the input records, as positions of SourcePool
    csOut,        \* chunks_to_sources: the sources it returned, or that it raised
    csDone,       \* whether chunks_to_sources has returned
    \* ask endpoint (src/backend/app/main.py)
    service,      \* app.state.scholar_service: absent or present
    ai,           \* service.ai: None, ScholarAI or MockScholarAI
    initTask,     \* the background task running service.initialize()
    initEnv,      \* history: the environment service.initialize() ran in
    askIn,        \* history: service state and generator outcome of the last ask
    resp,         \* the response of the last ask
    \* context assembly and prompt (src/src/generation.py)
    asmIn,        \* the retrieved chunks, as positions of RankedPool
    asmOut,       \* what the steps between retrieval and model call computed
    asmPc         \* position between retrieval and model call

bldVars == <<present, bpc, bsize, bi, embedded, prior>>
idxVars == <<collection, corpus, bldVars>>
concatVars == <<scIn, scOut, scDone>>
retVars == <<rcall, sres, rout, concatVars>>
genVars == <<file, cache, pc, query, chunks, answer, mres, ret, trace, served, saved>>
cleanVars == <<clIn, clOut>>
procVars == <<ppIn, ppi, ppOut, ppPc>>
segVars == <<ctIn, ctOut, ssIn, ssOut, segDone, cleanVars, procVars>>
srcVars == <<csIn, csOut, csDone>>
askVars == <<service, ai, initTask, initEnv, askIn, resp>>
asmVars == <<asmIn, asmOut, asmPc>>
vars == <<idxVars, retVars, genVars, segVars, srcVars, askVars, asmVars>>

-----------------------------------------------------------------------------
(* Strings *)

Rep(c, n) == [i \in 1..n |-> c]

Take(s, n) == SubSeq(s, 1, IF n < Len(s) THEN n ELSE Len(s))

Space == <<" ">>
CommaSpace == <<",", " ">>
Ellipsis == <<".", ".", ".">>

RECURSIVE Join(_, _)
\* sep.join(parts)
Join(sep, parts) ==
    IF Len(parts) = 0 THEN <<>>
    ELSE IF Len(parts) = 1 THEN parts[1]
    ELSE parts[1] \o sep \o Join(sep, Tail(parts))

RECURSIVE Flatten(_)
Flatten(parts) == IF Len(parts) = 0 THEN <<>> ELSE parts[1] \o Flatten(Tail(parts))

None == [none |-> TRUE]

\* a dict after d[k] = v
Put(m, k, v) == [x \in (DOMAIN m) \cup {k} |-> IF x = k THEN v ELSE m[x]]

-----------------------------------------------------------------------------
(* Embedding indexer: src/src/embedding.py *)

\* SentenceTransformer.encode on one text: a deterministic function of the text.
Encode(text) == <<Len(text), IF Len(text) > 0 THEN text[1] ELSE " ">>

BatchSize == 64

RECURSIVE EmbedFrom(_, _, _)
EmbedFrom(texts, i, batch_size) ==
    IF i > Len(texts) THEN <<>>
    ELSE LET batch_texts == SubSeq(texts, i,
                                   IF i + batch_size - 1 < Len(texts)
                                   THEN i + batch_size - 1 ELSE Len(texts))
             batch_embeddings == [j \in 1..Len(batch_texts) |-> Encode(batch_texts[j])]
         IN  batch_embeddings \o EmbedFrom(texts, i + batch_size, batch_size)

create_embeddings(chs, batch_size) ==
    EmbedFrom([i \in 1..Len(chs) |-> chs[i].text], 1, batch_size)

\* store_embeddings whose metadata list is built from the first chunk only
store_embeddings_first_meta(chs, embeddings) ==
    [i \in 1..Len(chs) |->
        [id        |-> <<"chunk_", i - 1>>,
         document  |-> chs[i].text,
         metadata  |-> [paper_id    |-> chs[1].paper_id,
                        paper_title |-> chs[1].paper_title,
                        authors     |-> Join(CommaSpace, chs[1].authors),
                        section     |-> chs[1].section,
                        chunk_index |-> chs[1].chunk_index],
         embedding |-> embeddings[i]]]

\* ids, documents, metadatas and embeddings of collection.add, one record per index
store_embeddings(chs, embeddings) ==
    [i \in 1..Len(chs) |->
        [id        |-> <<"chunk_", i - 1>>,
         document  |-> chs[i].text,
         metadata  |-> [paper_id    |-> chs[i].paper_id,
                        paper_title |-> chs[i].paper_title,
                        authors     |-> Join(CommaSpace, chs[i].authors),
                        section     |-> chs[i].section,
                        chunk_index |-> chs[i].chunk_index],
         embedding |-> embeddings[i]]]

build_vector_store(chs) == store_embeddings(chs, create_embeddings(chs, BatchSize))

NoStore == [present |-> FALSE, collection |-> <<>>]

\* no build is running; the serving side has done get_or_create_collection
IdleBld ==
    /\ present = TRUE /\ bpc = "idle" /\ bsize = 0 /\ bi = 0
    /\ embedded = <<>> /\ prior = NoStore

-----------------------------------------------------------------------------
(* Retrieval service: src/backend/src/retrieval.py *)

InjSeqs(S, n) ==
    {s \in [1..n -> S] : \A i, j \in 1..n : i /= j => s[i] /= s[j]}

Min(a, b) == IF a < b THEN a ELSE b

\* collection.query(query_embeddings=[e], n_results=k): the store ranks by its own
\* metric; it yields at most k of its records, each once, as parallel columns
\* (one row per query embedding).
collection_query(coll, k) ==
    {[ids       |-> <<[i \in 1..Len(p) |-> coll[p[i]].id]>>,
      documents |-> <<[i \in 1..Len(p) |-> coll[p[i]].document]>>,
      metadatas |-> <<[i \in 1..Len(p) |-> coll[p[i]].metadata]>>] :
        p \in UNION {InjSeqs(1..Len(coll), n) : n \in 0..Min(k, Len(coll))}}

\* retrieve that hands the records back worst-first
retrieve_reversed(results) ==
    LET n == Len(results.documents[1]) IN
    [i \in 1..n |->
        [text     |-> results.documents[1][n + 1 - i],
         metadata |-> results.metadatas[1][n + 1 - i],
         id       |-> results.ids[1][n + 1 - i]]]

retrieve(results) ==
    [i \in 1..Len(results.documents[1]) |->
        [text     |-> results.documents[1][i],
         metadata |-> results.metadatas[1][i],
         id       |-> results.ids[1][i]]]

RECURSIVE ConcatLoopNoCount(_, _, _, _, _)
\* ConcatLoop without the update of total_chars
ConcatLoopNoCount(chs, i, texts, total_chars, max_chars) ==
    IF i > Len(chs) THEN texts
    ELSE LET text == chs[i].text IN
         IF total_chars + Len(text) > max_chars
         THEN LET remaining == max_chars - total_chars
              IN  Append(texts, Take(text, remaining) \o Ellipsis)
         ELSE ConcatLoopNoCount(chs, i + 1, Append(texts, text), total_chars, max_chars)

RECURSIVE ConcatLoop(_, _, _, _, _)
ConcatLoop(chs, i, texts, total_chars, max_chars) ==
    IF i > Len(chs) THEN texts
    ELSE LET text == chs[i].text IN
         IF total_chars + Len(text) > max_chars
         THEN LET remaining == max_chars - total_chars
              IN  Append(texts, Take(text, remaining) \o Ellipsis)
         ELSE ConcatLoop(chs, i + 1, Append(texts, text),
                         total_chars + Len(text), max_chars)

simple_concat_answer(chs, max_chars) ==
    Join(Space, ConcatLoop(chs, 1, <<>>, 0, max_chars))

MaxCharsDefault == 800

-----------------------------------------------------------------------------
(* Document segmenter: src/backend/src/processing.py *)

Whitespace == {" ", "\t", "\n"}

UpperCase == <<"A", "B", "C", "D", "E", "F", "G", "H", "I", "J", "K", "L", "M", "N", "O", "P", "Q", "R", "S", "T", "U", "V", "W", "X", "Y", "Z">>
LowerCase == <<"a", "b", "c", "d", "e", "f", "g", "h", "i", "j", "k", "l", "m", "n", "o", "p", "q", "r", "s", "t", "u", "v", "w", "x", "y", "z">>

lower_char(c) ==
    IF \E i \in 1..Len(UpperCase) : UpperCase[i] = c
    THEN LowerCase[CHOOSE i \in 1..Len(UpperCase) : UpperCase[i] = c]
    ELSE c

\* str.lower
lower(s) == [i \in 1..Len(s) |-> lower_char(s[i])]

\* str.strip
strip(s) ==
    LET keep == {i \in 1..Len(s) : s[i] \notin Whitespace} IN
    IF keep = {} THEN <<>>
    ELSE SubSeq(s, CHOOSE i \in keep : \A j \in keep : i <= j,
                   CHOOSE i \in keep : \A j \in keep : i >= j)

\* str.startswith
startswith(s, h) == Len(s) >= Len(h) /\ SubSeq(s, 1, Len(h)) = h

RECURSIVE SplitWs(_, _, _)
SplitWs(s, i, word) ==
    IF i > Len(s) THEN (IF Len(word) = 0 THEN <<>> ELSE <<word>>)
    ELSE IF s[i] \in Whitespace
         THEN (IF Len(word) = 0 THEN <<>> ELSE <<word>>) \o SplitWs(s, i + 1, <<>>)
         ELSE SplitWs(s, i + 1, Append(word, s[i]))

\* str.split(): the maximal runs of non-whitespace characters
split(s) == SplitWs(s, 1, <<>>)

SECTION_HEADERS ==
    << <<"a", "b", "s", "t", "r", "a", "c", "t">>,
       <<"i", "n", "t", "r", "o", "d", "u", "c", "t", "i", "o", "n">>,
       <<"b", "a", "c", "k", "g", "r", "o", "u", "n", "d">>,
       <<"r", "e", "l", "a", "t", "e", "d", " ", "w", "o", "r", "k">>,
       <<"m", "e", "t", "h", "o", "d">>,
       <<"m", "e", "t", "h", "o", "d", "s">>,
       <<"m", "e", "t", "h", "o", "d", "o", "l", "o", "g", "y">>,
       <<"a", "p", "p", "r", "o", "a", "c", "h">>,
       <<"m", "o", "d", "e", "l">>,
       <<"m", "o", "d", "e", "l", "s">>,
       <<"a", "l", "g", "o", "r", "i", "t", "h", "m">>,
       <<"e", "x", "p", "e", "r", "i", "m", "e", "n", "t", "s">>,
       <<"e", "x", "p", "e", "r", "i", "m", "e", "n", "t", "a", "l", " ", "s", "e", "t", "u", "p">>,
       <<"r", "e", "s", "u", "l", "t", "s">>,
       <<"e", "v", "a", "l", "u", "a", "t", "i", "o", "n">>,
       <<"d", "i", "s", "c", "u", "s", "s", "i", "o", "n">>,
       <<"c", "o", "n", "c", "l", "u", "s", "i", "o", "n">>,
       <<"c", "o", "n", "c", "l", "u", "s", "i", "o", "n", "s">> >>

HeaderMaxLen == 50

\* is_header with the length test on the raw line instead of the trimmed one
is_header_raw_len(line) ==
    LET line_clean == lower(strip(line)) IN
    /\ \E h \in 1..Len(SECTION_HEADERS) : startswith(line_clean, SECTION_HEADERS[h])
    /\ Len(line) < HeaderMaxLen

\* the test of line 56 on one line
is_header(line) ==
    LET line_clean == lower(strip(line)) IN
    /\ \E h \in 1..Len(SECTION_HEADERS) : startswith(line_clean, SECTION_HEADERS[h])
    /\ Len(line_clean) < HeaderMaxLen

Unknown == <<"u", "n", "k", "n", "o", "w", "n">>

\* the loop of split_into_sections; order is the insertion order of the dict keys
RECURSIVE SectionLoop(_, _, _, _, _)
SectionLoop(lines, i, order, sections, current_section) ==
    IF i > Len(lines) THEN [order |-> order, sections |-> sections]
    ELSE IF is_header(lines[i])
         THEN LET line_clean == lower(strip(lines[i])) IN
              SectionLoop(lines, i + 1,
                          IF line_clean \in DOMAIN sections THEN order
                          ELSE Append(order, line_clean),
                          Put(sections, line_clean, <<>>), line_clean)
         ELSE SectionLoop(lines, i + 1, order,
                          [sections EXCEPT ![current_section] = Append(@, lines[i])],
                          current_section)

split_into_sections(lines) ==
    LET r == SectionLoop(lines, 1, <<Unknown>>, Put(<<>>, Unknown, <<>>), Unknown) IN
    [order |-> r.order,
     text  |-> [k \in DOMAIN r.sections |-> Join(Space, r.sections[k])]]

\* ChunkLoop that emits only once the buffer is longer than max_tokens
RECURSIVE ChunkLoopOver(_, _, _, _, _)
ChunkLoopOver(words, i, chs, current_chunk, max_tokens) ==
    IF i > Len(words) THEN [chunks |-> chs, current_chunk |-> current_chunk]
    ELSE LET grown == Append(current_chunk, words[i]) IN
         IF Len(grown) > max_tokens
         THEN ChunkLoopOver(words, i + 1, Append(chs, Join(Space, grown)), <<>>, max_tokens)
         ELSE ChunkLoopOver(words, i + 1, chs, grown, max_tokens)

RECURSIVE ChunkLoop(_, _, _, _, _)
ChunkLoop(words, i, chs, current_chunk, max_tokens) ==
    IF i > Len(words) THEN [chunks |-> chs, current_chunk |-> current_chunk]
    ELSE LET grown == Append(current_chunk, words[i]) IN
         IF Len(grown) >= max_tokens
         THEN ChunkLoop(words, i + 1, Append(chs, Join(Space, grown)), <<>>, max_tokens)
         ELSE ChunkLoop(words, i + 1, chs, grown, max_tokens)

chunk_text(text, min_tokens, max_tokens) ==
    LET r == ChunkLoop(split(text), 1, <<>>, <<>>, max_tokens) IN
    IF Len(r.current_chunk) >= min_tokens
    THEN Append(r.chunks, Join(Space, r.current_chunk))
    ELSE r.chunks

NoChunkCall == [text |-> <<>>, min_tokens |-> 0, max_tokens |-> 0]

NoSections == [order |-> <<>>, text |-> <<>>]

\* text.replace("\n", " ")
replace_newline(text) == [i \in 1..Len(text) |-> IF text[i] = "\n" THEN " " ELSE text[i]]

\* what re.sub(r"\s+", " ", text) would do: every run of whitespace becomes one space
sub_whitespace_runs(text) ==
    LET keep == SelectSeq([i \in 1..Len(text) |->
                              IF text[i] \notin Whitespace THEN <<text[i]>>
                              ELSE IF i > 1 /\ text[i - 1] \in Whitespace THEN <<>>
                              ELSE <<" ">>],
                          LAMBDA x : Len(x) > 0)
    IN  [i \in 1..Len(keep) |-> keep[i][1]]

\* re.sub(r"\s", " ", text): every single whitespace character becomes a space
sub_whitespace(text) == [i \in 1..Len(text) |-> IF text[i] \in Whitespace THEN " " ELSE text[i]]

clean_text(text) == strip(sub_whitespace(replace_newline(text)))

IdleClean == clIn = <<>> /\ clOut = <<>>
IdleProc == ppIn = <<>> /\ ppi = 0 /\ ppOut = <<>> /\ ppPc = "idle"

IdleSeg ==
    /\ ctIn = NoChunkCall /\ ctOut = <<>>
    /\ ssIn = <<>> /\ ssOut = NoSections
    /\ segDone = FALSE
    /\ IdleClean /\ IdleProc

-----------------------------------------------------------------------------
(* Source resolver: src/backend/app/services/scholar_service.py *)

\* Python values of heterogeneous records: None, str, int, list and dict, and the
\* outcome of an evaluation that ended in an exception
NoneV == [t |-> "none", v |-> <<>>]
Str(s) == [t |-> "str", v |-> s]
IntV(n) == [t |-> "int", v |-> <<n>>]
List(xs) == [t |-> "list", v |-> xs]
Dict(d) == [t |-> "dict", v |-> d]
Raised == [t |-> "raise", v |-> <<>>]

\* bool(x)
Truthy(x) ==
    CASE x.t = "none" -> FALSE
      [] x.t = "raise" -> FALSE
      [] x.t = "int" -> x.v[1] /= 0
      [] x.t = "dict" -> DOMAIN x.v /= {}
      [] OTHER -> Len(x.v) > 0

\* a or b: b is evaluated only when a is falsy; an exception in a ends the chain
Or(a, b) == IF a.t = "raise" \/ Truthy(a) THEN a ELSE b

\* d.get(k): only a dict has the method
Get(d, k) ==
    IF d.t /= "dict" THEN Raised
    ELSE IF k \in DOMAIN d.v THEN d.v[k] ELSE NoneV

ArxivAbs == <<"h", "t", "t", "p", "s", ":", "/", "/", "a", "r", "x", "i", "v", ".", "o", "r",
        "g", "/", "a", "b", "s", "/">>

\* s.split("v")[0]: the part of s before its first "v"
split_v_first(s) ==
    LET V == {i \in 1..Len(s) : s[i] = "v"}
    IN  IF V = {} THEN s
        ELSE SubSeq(s, 1, (CHOOSE i \in V : \A j \in V : i <= j) - 1)

\* the explicit link of a record: the first truthy link alias
explicit_link(chunk, meta) ==
    Or(Get(chunk, "link"), Or(Get(chunk, "url"), Or(Get(chunk, "source"),
    Or(Get(meta, "link"), Or(Get(meta, "url"), Get(meta, "source"))))))

\* the body of the loop of chunks_to_sources for a dict record, up to the key
resolve(chunk) ==
    LET meta == Or(Get(chunk, "metadata"), Or(Get(chunk, "meta"), Dict(<<>>)))
        title == Or(Get(chunk, "paper_title"), Or(Get(chunk, "title"),
                 Or(Get(chunk, "paper"), Or(Get(meta, "paper_title"),
                 Get(meta, "title")))))
        authors0 == Or(Get(chunk, "authors"), Or(Get(chunk, "author"),
                    Or(Get(meta, "authors"), Get(meta, "author"))))
        authors == IF authors0.t = "list"
                   THEN Str(Join(CommaSpace, authors0.v)) ELSE authors0
        section == Or(Get(chunk, "section"), Or(Get(meta, "section"),
                   Or(Get(chunk, "chunk"), Or(Get(chunk, "context"),
                   Or(Get(chunk, "excerpt"), Or(Get(meta, "section"),
                   Get(meta, "part")))))))
        link0 == explicit_link(chunk, meta)
        paper_id == Or(Get(meta, "paper_id"), Get(meta, "id"))
        link == IF link0.t = "raise" \/ Truthy(link0) THEN link0
                ELSE IF paper_id.t = "raise" THEN Raised
                ELSE IF Truthy(paper_id)
                     THEN Str(ArxivAbs \o split_v_first(paper_id.v))
                     ELSE link0
    IN  [paper_title |-> title, authors |-> authors, section |-> section,
         link |-> link]

\* the statements run in order, so the first exception ends the call
resolve_raises(f) ==
    \/ f.paper_title.t = "raise" \/ f.authors.t = "raise"
    \/ f.section.t = "raise" \/ f.link.t = "raise"

\* key = link if link else (title, section); a str never equals a tuple
dedup_key(f) ==
    IF Truthy(f.link) THEN <<"link", f.link>>
    ELSE <<"pair", f.paper_title, f.section>>

RECURSIVE SourcesLoop(_, _, _, _)
SourcesLoop(chs, i, seen, sources) ==
    IF i > Len(chs) THEN [raised |-> FALSE, sources |-> sources]
    ELSE IF chs[i].t /= "dict" THEN SourcesLoop(chs, i + 1, seen, sources)
    ELSE LET f == resolve(chs[i])
         IN  IF resolve_raises(f) THEN [raised |-> TRUE, sources |-> <<>>]
             ELSE IF dedup_key(f) \in seen
                  THEN SourcesLoop(chs, i + 1, seen, sources)
                  ELSE SourcesLoop(chs, i + 1, seen \cup {dedup_key(f)},
                                   Append(sources, f))

\* chunks_to_sources(chunks): the list of sources, or raised when an exception left it
chunks_to_sources(chs) ==
    IF ~Truthy(chs) THEN [raised |-> FALSE, sources |-> <<>>]
    ELSE IF chs.t = "list" THEN SourcesLoop(chs.v, 1, {}, <<>>)
    ELSE IF chs.t \in {"str", "dict"} THEN [raised |-> FALSE, sources |-> <<>>]
    ELSE [raised |-> TRUE, sources |-> <<>>]

NoSources == [raised |-> FALSE, sources |-> <<>>]

IdleSrc == csIn = <<>> /\ csOut = NoSources /\ csDone = FALSE

-----------------------------------------------------------------------------
(* Context assembly and prompt: src/src/generation.py *)

\* c.get("metadata", {}).get("similarity_score", 0)
similarity_score(c) ==
    LET metadata == IF "metadata" \in DOMAIN c THEN c.metadata ELSE <<>>
    IN  IF "similarity_score" \in DOMAIN metadata THEN metadata.similarity_score ELSE 0

RECURSIVE DedupLoop(_, _, _)
\* the loop of _deduplicate_chunks over the chunks not yet visited
DedupLoop(rest, seen, deduped) ==
    IF Len(rest) = 0 THEN deduped
    ELSE LET text == strip(Head(rest).text)
         IN  IF text \notin seen
             THEN DedupLoop(Tail(rest), seen \cup {text}, Append(deduped, Head(rest)))
             ELSE DedupLoop(Tail(rest), seen, deduped)

deduplicate_chunks(cs) == DedupLoop(cs, {}, <<>>)

\* an unstable variant: an element goes before the elements of an equal key
InsertDescBeforeEqual(sorted, c) ==
    LET k == Cardinality({i \in 1..Len(sorted) :
                            similarity_score(sorted[i]) > similarity_score(c)})
    IN  SubSeq(sorted, 1, k) \o <<c>> \o SubSeq(sorted, k + 1, Len(sorted))

\* sorted(..., reverse=True) is stable: an element goes behind the elements of a
\* greater or equal key that came before it
InsertDesc(sorted, c) ==
    LET k == Cardinality({i \in 1..Len(sorted) :
                            similarity_score(sorted[i]) >= similarity_score(c)})
    IN  SubSeq(sorted, 1, k) \o <<c>> \o SubSeq(sorted, k + 1, Len(sorted))

RECURSIVE SortLoop(_, _)
SortLoop(rest, sorted) ==
    IF Len(rest) = 0 THEN sorted ELSE SortLoop(Tail(rest), InsertDesc(sorted, Head(rest)))

sort_chunks_by_relevance(cs) == SortLoop(cs, <<>>)

\* the local chunks of _prepare_context after both steps
prepared_chunks(cs) == sort_chunks_by_relevance(deduplicate_chunks(cs))

prepare_context(cs) ==
    LET kept == prepared_chunks(cs)
    IN  Join(Space, [i \in 1..Len(kept) |-> kept[i].text])

DecimalDigits == <<"0", "1", "2", "3", "4", "5", "6", "7", "8", "9">>

RECURSIVE Decimal(_)
\* str(n) of a natural number
Decimal(n) ==
    IF n < 10 THEN <<DecimalDigits[n + 1]>>
    ELSE Decimal(n \div 10) \o <<DecimalDigits[(n % 10) + 1]>>

\* f"[{i+1}] {chunk['text']}", with i + 1 as number
Numbered(number, text) == <<"[">> \o Decimal(number) \o <<"]", " ">> \o text

BlankLine == <<"\n", "\n">>

numbered_context(cs) ==
    Join(BlankLine, [i \in 1..Len(cs) |-> Numbered(i, cs[i].text)])

\* the prompt: a fixed template around the question and the numbered evidence
build_prompt(q, cs) == [question |-> q, papers |-> numbered_context(cs)]

NoPrompt == [question |-> <<>>, papers |-> <<>>]
NoAssembly == [kept |-> <<>>, context |-> <<>>, prompt |-> NoPrompt, returned |-> <<>>]
IdleAsm == asmIn = <<>> /\ asmOut = NoAssembly /\ asmPc = "idle"

-----------------------------------------------------------------------------
(* ask endpoint: src/backend/app/main.py, src/backend/app/services/scholar_service.py *)

fallback_answer == <<"I", "'", "m", " ", "s", "o", "r", "r", "y", " ", "-", " ", "t", "h", "e",
        " ", "A", "I", " ", "f", "a", "i", "l", "e", "d", " ", "t", "o", " ", "g", "e", "n",
        "e", "r", "a", "t", "e", " ", "a", "n", " ", "a", "n", "s", "w", "e", "r", " ", "a",
        "t", " ", "t", "h", "i", "s", " ", "t", "i", "m", "e", ".">>
StartingAnswer == <<"S", "e", "r", "v", "i", "c", "e", " ", "i", "s", " ", "s", "t", "a", "r",
        "t", "i", "n", "g", ";", " ", "p", "l", "e", "a", "s", "e", " ", "r", "e", "t", "r",
        "y", " ", "i", "n", " ", "a", " ", "m", "o", "m", "e", "n", "t", ".">>
MockAnswerPrefix == <<"M", "o", "c", "k", " ", "e", "x", "p", "e", "r", "t", " ", "a", "n",
        "s", "w", "e", "r", " ", "f", "o", "r", ":", " ">>
Question == <<"q", "?">>

\* what a call of the generator does: raise, or return a value that is a tuple of n
\* items (answer, chunks) or is no tuple at all
GenRaise == [kind |-> "raise", n |-> 0, answer |-> NoneV, chunks |-> NoneV]
GenScalar == [kind |-> "scalar", n |-> 0, answer |-> NoneV, chunks |-> NoneV]
GenTuple(n, a, c) == [kind |-> "tuple", n |-> n, answer |-> a, chunks |-> c]

\* a generator outcome as the state records it: the answer and the chunk argument are
\* named by their position in AnswerPool and in SourcePool
NoArg == [kind |-> "none", ix |-> <<>>]
Outcome(kind, n, a, c) == [kind |-> kind, n |-> n, answer |-> a, chunks |-> c]
NotCalled == Outcome("none", 0, 1, NoArg)

\* MockScholarAI.generate_expert_answer(question)
MockResult ==
    GenTuple(2, Str(MockAnswerPrefix \o Question),
             List(<<Dict([paper_title |-> Str(<<"A", " ", "M", "o", "c", "k", " ", "P", "a",
        "p", "e", "r", " ", "o", "n", " ", "t", "h", "e", " ", "T", "o", "p", "i", "c">>),
                          authors |-> Str(<<"D", "o", "e", ",", " ", "J", ".">>),
                          section |-> Str(<<"O", "v", "e", "r", "v", "i", "e", "w">>),
                          link |-> Str(<<"h", "t", "t", "p", "s", ":", "/", "/", "e", "x", "a",
        "m", "p", "l", "e", ".", "o", "r", "g", "/", "m", "o", "c", "k", "-", "p", "a", "p",
        "e", "r">>)])>>))

\* ScholarService.generate_expert_answer
service_generate(a, o) == IF a = "None" THEN GenRaise ELSE o

HttpError == [status |-> "error", answer |-> <<>>, sources |-> <<>>, called |-> TRUE]

\* AskResponse(answer=..., sources=...): pydantic rejects an answer that is no str
\* and a source field that is neither None nor a str
AskResponse(ans, sources, called) ==
    IF /\ ans.t = "str"
       /\ \A i \in 1..Len(sources) :
             /\ sources[i].paper_title.t \in {"none", "str"}
             /\ sources[i].authors.t \in {"none", "str"}
             /\ sources[i].section.t \in {"none", "str"}
             /\ sources[i].link.t \in {"none", "str"}
    THEN [status |-> "ok", answer |-> ans.v, sources |-> sources, called |-> called]
    ELSE HttpError

\* the try block of ask; HttpError stands for an exception leaving it
ask_try(a, o) ==
    LET result == service_generate(a, o)
    IN  IF result.kind = "raise" THEN HttpError
        ELSE IF result.kind /= "tuple" \/ result.n < 1
             THEN AskResponse(Str(fallback_answer), <<>>, TRUE)
        ELSE LET chs == IF result.n > 1 THEN result.chunks ELSE List(<<>>)
                 sources == chunks_to_sources(chs)
             IN  IF sources.raised THEN HttpError
                 ELSE AskResponse(Or(result.answer, Str(fallback_answer)),
                                  sources.sources, TRUE)

\* ask without its except clause
ask_no_except(svc, a, o) ==
    IF svc = "absent" THEN AskResponse(Str(fallback_answer), <<>>, FALSE)
    ELSE IF a = "None" THEN AskResponse(Str(StartingAnswer), <<>>, FALSE)
    ELSE ask_try(a, o)

\* ask(payload)
ask(svc, a, o) ==
    IF svc = "absent" THEN AskResponse(Str(fallback_answer), <<>>, FALSE)
    ELSE IF a = "None" THEN AskResponse(Str(StartingAnswer), <<>>, FALSE)
    ELSE LET r == ask_try(a, o)
         IN  IF r.status = "error" THEN AskResponse(Str(fallback_answer), <<>>, TRUE)
             ELSE r

NoResponse == [status |-> "none", answer |-> <<>>, sources |-> <<>>, called |-> FALSE]
NoAsk == [service |-> "absent", ai |-> "None", init |-> "none", gen |-> NotCalled]

\* what service.initialize() finds: the credential GEMINI_API_KEY is set, the
\* generator module is importable otherwise, the construction of ScholarAI succeeds
Envs == [key : BOOLEAN, importable : BOOLEAN, constructs : BOOLEAN]
NoEnv == [key |-> FALSE, importable |-> FALSE, constructs |-> FALSE]

\* _import_scholarai: both imports run the module, which raises without the credential
import_scholarai(env) == IF env.key /\ env.importable THEN "ScholarAI" ELSE "None"

\* initialize without the except clause around Real(): self.ai stays None
initialize_no_except(env) ==
    IF import_scholarai(env) = "None" THEN "MockScholarAI"
    ELSE IF env.constructs THEN "ScholarAI" ELSE "None"

\* ScholarService.initialize: the value self.ai has when it returns
initialize(env) ==
    IF import_scholarai(env) = "None" THEN "MockScholarAI"
    ELSE IF env.constructs THEN "ScholarAI" ELSE "MockScholarAI"

IdleAsk ==
    /\ service = "absent" /\ ai = "None" /\ initTask = "none" /\ initEnv = NoEnv
    /\ askIn = NoAsk /\ resp = NoResponse

IdleWeb == IdleSrc /\ IdleAsk


-----------------------------------------------------------------------------
(* The corpus the serving index is built from *)

TextA == Rep("a", 500)
TextB == Rep("b", 400)

Id1 == <<"1", "2", ".", "3", "v", "1">>
Id2 == <<"4", "5", ".", "6", "v", "2">>

SegChunk(text, pid, title, section, idx) ==
    [text |-> text, paper_id |-> pid, paper_title |-> title,
     authors |-> <<<<"A", "n", "n">>, <<"B", "o">>>>, section |-> section,
     chunk_index |-> idx]

ServingCorpus ==
    << SegChunk(TextA, Id1, <<"T", "1">>, <<"a", "b", "s">>, 0),
       SegChunk(TextB, Id2, <<"T", "2">>, <<"r", "e", "s">>, 0) >>

-----------------------------------------------------------------------------
(* Answer cache and answer generator: src/src/generation.py *)

Queries == {"q1", "q2"}
NoQuery == "-"
TopK == 5

NoPapers == <<"No relevant papers found for this query.">>
ModelTexts == {<<"m", "1">>, <<"m", "2">>}

\* the order in which a JSON object lists the queries
QueryOrder == <<"q1", "q2">>

\* json.dump(m): the text of a JSON object, a list of key/value members
json_dump(m) ==
    LET keys == SelectSeq(QueryOrder, LAMBDA k : k \in DOMAIN m)
    IN  [i \in 1..Len(keys) |-> <<keys[i], m[keys[i]]>>]

\* json.load of the text of a JSON object: the mapping of its members
json_load(members) ==
    [k \in {members[i][1] : i \in 1..Len(members)} |->
        members[CHOOSE i \in 1..Len(members) : members[i][1] = k][2]]

\* the cache file: missing, not openable, not parseable, the text of a JSON object
\* (what json.dump wrote), or the text of a JSON value that is no object
Absent == [kind |-> "absent"]
Unreadable == [kind |-> "unreadable"]
Corrupt == [kind |-> "corrupt"]
Stored(m) == [kind |-> "json", data |-> json_dump(m)]
JsonValue(type) == [kind |-> "json_value", data |-> type]

\* a parsed JSON value that is no dict: a list, a number, a str
NotADict(type) == [notdict |-> type]
IsDict(c) == "notdict" \notin DOMAIN c

\* _load_cache: whatever json.load parsed, and {} when the file is missing or
\* open or json.load raised
load_cache(f) ==
    IF f.kind = "json" THEN json_load(f.data)
    ELSE IF f.kind = "json_value" THEN NotADict(f.data)
    ELSE <<>>

\* lines 136-139 on self.cache = c: "query in c", then c[query]["answer"] and
\* c[query]["chunks"]; each of them can raise when c is not what the code wrote
LookupOutcome(c, q) ==
    IF ~IsDict(c)
    THEN (IF c.notdict = "list" THEN "miss" ELSE "raise")
    ELSE IF q \notin DOMAIN c THEN "miss"
    ELSE IF IsDict(c[q]) /\ {"answer", "chunks"} \subseteq DOMAIN c[q] THEN "hit"
    ELSE "raise"

Step(g, from, to) == pc[g] = from /\ pc' = [pc EXCEPT ![g] = to]

Log(g, e) == trace' = [trace EXCEPT ![g] = Append(@, e)]

Call(g, q) ==
    /\ Step(g, "idle", "lookup")
    /\ query' = [query EXCEPT ![g] = q]
    /\ UNCHANGED <<file, cache, chunks, answer, mres, ret, trace, served, saved>>

\* ScholarAI.__init__: self.cache = self._load_cache()
Construct(g) ==
    /\ Step(g, "new", "idle")
    /\ cache' = [cache EXCEPT ![g] = load_cache(file)]
    /\ UNCHANGED <<file, query, chunks, answer, mres, ret, trace, served, saved>>

\* the lookup raises: the exception leaves generate_expert_answer
CacheRaise(g) ==
    /\ pc[g] = "lookup"
    /\ LookupOutcome(cache[g], query[g]) = "raise"
    /\ Step(g, "lookup", "raised")
    /\ UNCHANGED <<file, cache, query, chunks, answer, mres, ret, trace, served, saved>>

CacheHit(g) ==
    /\ pc[g] = "lookup"
    /\ LookupOutcome(cache[g], query[g]) = "hit"
    /\ Step(g, "lookup", "done")
    /\ LET cached == cache[g][query[g]]
       IN  ret' = [ret EXCEPT ![g] = [answer |-> cached.answer, chunks |-> cached.chunks]]
    /\ UNCHANGED <<file, cache, query, chunks, answer, mres, trace, served, saved>>

CacheMiss(g) ==
    /\ pc[g] = "lookup"
    /\ LookupOutcome(cache[g], query[g]) = "miss"
    /\ Step(g, "lookup", "retrieve")
    /\ UNCHANGED <<file, cache, query, chunks, answer, mres, ret, trace, served, saved>>

Retrieve(g) ==
    /\ pc[g] = "retrieve"
    /\ \E results \in collection_query(collection, TopK) :
          /\ chunks' = [chunks EXCEPT ![g] = retrieve(results)]
          /\ pc' = [pc EXCEPT ![g] = IF Len(retrieve(results)) = 0
                                     THEN "nochunks" ELSE "model"]
    /\ Log(g, "retrieve")
    /\ UNCHANGED <<file, cache, query, answer, mres, ret, served, saved>>

\* NoChunks that stores the sentinel in self.cache
NoChunksCached(g) ==
    /\ Step(g, "nochunks", "done")
    /\ ret' = [ret EXCEPT ![g] = [answer |-> NoPapers, chunks |-> <<>>]]
    /\ cache' = [cache EXCEPT ![g] =
                    Put(@, query[g], [answer |-> NoPapers, chunks |-> <<>>])]
    /\ UNCHANGED <<file, query, chunks, answer, mres, trace, served, saved>>

NoChunks(g) ==
    /\ Step(g, "nochunks", "done")
    /\ ret' = [ret EXCEPT ![g] = [answer |-> NoPapers, chunks |-> <<>>]]
    /\ UNCHANGED <<file, cache, query, chunks, answer, mres, trace, served, saved>>

ModelSuccess(g) ==
    /\ Step(g, "model", "cachewrite")
    /\ \E text \in ModelTexts : answer' = [answer EXCEPT ![g] = text]
    /\ mres' = [mres EXCEPT ![g] = "ok"]
    /\ Log(g, "model")
    /\ UNCHANGED <<file, cache, query, chunks, ret, served, saved>>

ModelFailure(g) ==
    /\ Step(g, "model", "fallback")
    /\ mres' = [mres EXCEPT ![g] = "raised"]
    /\ Log(g, "model")
    /\ UNCHANGED <<file, cache, query, chunks, answer, ret, served, saved>>

Fallback(g) ==
    /\ Step(g, "fallback", "cachewrite")
    /\ answer' = [answer EXCEPT ![g] = simple_concat_answer(chunks[g], MaxCharsDefault)]
    /\ Log(g, "fallback")
    /\ UNCHANGED <<file, cache, query, chunks, mres, ret, served, saved>>

\* CacheWrite without the assignment to self.cache
CacheWriteSkip(g) ==
    /\ Step(g, "cachewrite", "save")
    /\ Log(g, "cache_write")
    /\ UNCHANGED <<file, cache, query, chunks, answer, mres, ret, served, saved>>

\* CacheWrite under a normalised key instead of the query as given
CacheWriteNormalisedKey(g) ==
    /\ Step(g, "cachewrite", "save")
    /\ cache' = [cache EXCEPT ![g] =
                    Put(@, "q1", [answer |-> answer[g], chunks |-> chunks[g]])]
    /\ Log(g, "cache_write")
    /\ UNCHANGED <<file, query, chunks, answer, mres, ret, served, saved>>

\* CacheWrite that rebinds self.cache to a mapping of the new entry alone
CacheWriteReplaceAll(g) ==
    /\ Step(g, "cachewrite", "save")
    /\ cache' = [cache EXCEPT ![g] =
                    Put(<<>>, query[g], [answer |-> answer[g], chunks |-> chunks[g]])]
    /\ Log(g, "cache_write")
    /\ UNCHANGED <<file, query, chunks, answer, mres, ret, served, saved>>

CacheWrite(g) ==
    /\ Step(g, "cachewrite", "save")
    /\ cache' = [cache EXCEPT ![g] =
                    Put(@, query[g], [answer |-> answer[g], chunks |-> chunks[g]])]
    /\ Log(g, "cache_write")
    /\ UNCHANGED <<file, query, chunks, answer, mres, ret, served, saved>>

\* _save_cache that writes only the entry of the running query
SaveCacheEntryOnly(g) ==
    /\ Step(g, "save", "return")
    /\ \/ /\ file' = Stored(Put(<<>>, query[g], cache[g][query[g]]))
          /\ saved' = [saved EXCEPT ![g] = Put(@, query[g], "ok")]
       \/ /\ file' \in {file, Corrupt}
          /\ saved' = [saved EXCEPT ![g] = Put(@, query[g], "failed")]
    /\ Log(g, "save")
    /\ UNCHANGED <<cache, query, chunks, answer, mres, ret, served>>

\* _save_cache that reads the file again and merges its own mapping into it
SaveCacheMerged(g) ==
    /\ Step(g, "save", "return")
    /\ \/ /\ LET old == load_cache(file)
             IN  file' = Stored([k \in DOMAIN old \cup DOMAIN cache[g] |->
                                   IF k \in DOMAIN cache[g] THEN cache[g][k] ELSE old[k]])
          /\ saved' = [saved EXCEPT ![g] = Put(@, query[g], "ok")]
       \/ /\ file' \in {file, Corrupt}
          /\ saved' = [saved EXCEPT ![g] = Put(@, query[g], "failed")]
    /\ Log(g, "save")
    /\ UNCHANGED <<cache, query, chunks, answer, mres, ret, served>>

\* _save_cache: the whole mapping replaces the file; a failure is swallowed and
\* leaves the file as it was (open failed) or cut short (the dump failed).
SaveCache(g) ==
    /\ Step(g, "save", "return")
    /\ \/ /\ file' = Stored(cache[g])
          /\ saved' = [saved EXCEPT ![g] = Put(@, query[g], "ok")]
       \/ /\ file' \in {file, Corrupt}
          /\ saved' = [saved EXCEPT ![g] = Put(@, query[g], "failed")]
    /\ Log(g, "save")
    /\ UNCHANGED <<cache, query, chunks, answer, mres, ret, served>>

Return(g) ==
    /\ Step(g, "return", "done")
    /\ ret' = [ret EXCEPT ![g] = [answer |-> answer[g], chunks |-> chunks[g]]]
    /\ UNCHANGED <<file, cache, query, chunks, answer, mres, trace, served, saved>>

\* the caller takes the result; the locals of the call are gone
Finish(g) ==
    /\ Step(g, "done", "idle")
    /\ query' = [query EXCEPT ![g] = NoQuery]
    /\ chunks' = [chunks EXCEPT ![g] = <<>>]
    /\ answer' = [answer EXCEPT ![g] = <<>>]
    /\ mres' = [mres EXCEPT ![g] = "none"]
    /\ ret' = [ret EXCEPT ![g] = None]
    /\ trace' = [trace EXCEPT ![g] = <<>>]
    /\ served' = [served EXCEPT ![g] = Put(@, query[g], ret[g])]
    /\ UNCHANGED <<file, cache, saved>>

PriorEntry ==
    [answer |-> <<"m", "1">>,
     chunks |-> retrieve(CHOOSE r \in collection_query(build_vector_store(ServingCorpus), 1) :
                            Len(r.ids[1]) = 1)]

InitFiles == {Absent, Corrupt, Stored(<<>>), Stored(Put(<<>>, "q1", PriorEntry))}

NoCall == [query |-> NoQuery, k |-> 0]
NoResults == [ids |-> <<<<>>>>, documents |-> <<<<>>>>, metadatas |-> <<<<>>>>]

NoConcatCall == [texts |-> <<>>, max_chars |-> 0]
IdleConcat == scIn = NoConcatCall /\ scOut = <<>> /\ scDone = FALSE
IdleRet == /\ rcall = NoCall /\ sres = NoResults /\ rout = <<>> /\ IdleConcat

InitGen ==
    /\ corpus = ServingCorpus
    /\ collection = build_vector_store(ServingCorpus)
    /\ IdleBld
    /\ IdleRet
    /\ file \in InitFiles
    /\ cache = [g \in {1} |-> load_cache(file)]
    /\ pc = [g \in {1} |-> "idle"]
    /\ query = [g \in {1} |-> NoQuery]
    /\ chunks = [g \in {1} |-> <<>>]
    /\ answer = [g \in {1} |-> <<>>]
    /\ mres = [g \in {1} |-> "none"]
    /\ ret = [g \in {1} |-> None]
    /\ trace = [g \in {1} |-> <<>>]
    /\ served = [g \in {1} |-> <<>>]
    /\ saved = [g \in {1} |-> <<>>]
    /\ IdleSeg
    /\ IdleWeb /\ IdleAsm

NextGen ==
    /\ UNCHANGED <<idxVars, retVars, segVars, srcVars, askVars, asmVars>>
    /\ \E g \in DOMAIN pc :
          \/ \E q \in Queries : Call(g, q)
          \/ CacheHit(g)
          \/ CacheMiss(g)
          \/ Retrieve(g)
          \/ NoChunks(g)
          \/ ModelSuccess(g)
          \/ ModelFailure(g)
          \/ Fallback(g)
          \/ CacheWrite(g)
          \/ SaveCache(g)
          \/ Return(g)
          \/ Finish(g)

SpecGen == InitGen /\ [][NextGen]_vars

-----------------------------------------------------------------------------
(* Properties of the answer generator, checked under SpecGen *)

Gens == DOMAIN pc

\* the call of g ended on the path that retrieved at least one chunk
ViaChunks(g) == pc[g] = "done" /\ Len(trace[g]) > 0 /\ Len(chunks[g]) > 0
\* the call of g ended on the path whose retrieval was empty
ViaNoChunks(g) == pc[g] = "done" /\ Len(trace[g]) > 0 /\ Len(chunks[g]) = 0

Texts(chs) == [i \in 1..Len(chs) |-> chs[i].text]

\* ans is the texts of chs, in order, joined by single spaces, either all of them or
\* the first n - 1 followed by a cut of the n-th with the ellipsis marker
\* and the characters taken from the texts are at most budget
BuiltFrom(ans, chs, budget) ==
    \/ /\ ans = Join(Space, Texts(chs))
       /\ Len(Flatten(Texts(chs))) <= budget
    \/ \E n \in 1..Len(chs) : \E p \in 0..Len(chs[n].text) :
          /\ ans = Join(Space, Append(SubSeq(Texts(chs), 1, n - 1),
                                      SubSeq(chs[n].text, 1, p) \o Ellipsis))
          /\ Len(Flatten(SubSeq(Texts(chs), 1, n - 1))) + p <= budget

\* C1: a query that an earlier call answered with at least one chunk is answered
\* again with the identical (answer, chunks) pair, and that later call takes no
\* retrieval step and no model step.
C1_CacheIdempotent ==
    \A g \in Gens :
        (/\ pc[g] = "done"
         /\ query[g] \in DOMAIN served[g]
         /\ Len(served[g][query[g]].chunks) > 0)
        => /\ ret[g] = served[g][query[g]]
           /\ trace[g] = <<>>
           /\ mres[g] = "none"

C1_Witness ==
    \E g \in Gens :
        /\ pc[g] = "done"
        /\ query[g] \in DOMAIN served[g]
        /\ Len(served[g][query[g]].chunks) > 0
        /\ ret[g] = served[g][query[g]]
        /\ ret[g].answer = simple_concat_answer(ret[g].chunks, MaxCharsDefault)

\* C2: an empty retrieval returns the sentinel with no chunks, without a model call,
\* leaves self.cache and the cache file as they were when the call began (the query
\* is no key), and a call for a query whose last call ended that way retrieves again.
C2_AtReturn ==
    \A g \in Gens :
        /\ ViaNoChunks(g) =>
              /\ ret[g] = [answer |-> NoPapers, chunks |-> <<>>]
              /\ trace[g] = <<"retrieve">>
              /\ mres[g] = "none"
              /\ query[g] \notin DOMAIN cache[g]
        /\ (/\ pc[g] = "done"
            /\ query[g] \in DOMAIN served[g]
            /\ served[g][query[g]] = [answer |-> NoPapers, chunks |-> <<>>])
           => (Len(trace[g]) > 0 /\ trace[g][1] = "retrieve")

\* no step of a call whose retrieval is empty touches self.cache or the file
C2_NoWrite ==
    \A g \in Gens :
        (pc'[g] = "nochunks" \/ pc[g] = "nochunks") => (cache' = cache /\ file' = file)

C2_EmptyRetrievalNotCached == []C2_AtReturn /\ [][C2_NoWrite]_vars

C2_Witness ==
    \E g \in Gens :
        /\ ViaNoChunks(g)
        /\ query[g] \in DOMAIN served[g]
        /\ served[g][query[g]] = [answer |-> NoPapers, chunks |-> <<>>]
        /\ DOMAIN cache[g] /= {}

\* C3: when the model call raises after a non-empty retrieval, the call still ends
\* with a return, the answer is non-empty and consists of the retrieved texts in
\* retrieved order (the last one possibly cut, then marked with an ellipsis), and
\* after the failed model call only the fallback and the cache write happen.
C3_FallbackFromChunks ==
    \A g \in Gens :
        /\ mres[g] = "raised" =>
              pc[g] \in {"fallback", "cachewrite", "save", "return", "done"}
        /\ (pc[g] = "done" /\ mres[g] = "raised") =>
              /\ Len(ret[g].answer) > 0
              /\ ret[g].chunks = chunks[g]
              /\ BuiltFrom(ret[g].answer, chunks[g], MaxCharsDefault)
              /\ trace[g] = <<"retrieve", "model", "fallback", "cache_write", "save">>

C3_Witness ==
    \E g \in Gens :
        /\ pc[g] = "done" /\ mres[g] = "raised"
        /\ Len(chunks[g]) = 2
        /\ ret[g].answer /= Join(Space, Texts(chunks[g]))

\* C10: a call that misses and retrieves at least one chunk takes its steps in the
\* order retrieval, model call, fallback exactly when the model call failed, cache
\* write; when it returns, self.cache holds under the query the pair it returns.
C10_MissPathOrder ==
    \A g \in Gens :
        ViaChunks(g) =>
            /\ trace[g] = IF mres[g] = "raised"
                          THEN <<"retrieve", "model", "fallback", "cache_write", "save">>
                          ELSE <<"retrieve", "model", "cache_write", "save">>
            /\ mres[g] \in {"ok", "raised"}
            /\ query[g] \in DOMAIN cache[g]
            /\ cache[g][query[g]] = ret[g]
            /\ ret[g].chunks = chunks[g]
            /\ mres[g] = "ok" => ret[g].answer \in ModelTexts

C10_Witness ==
    \E g \in Gens :
        /\ ViaChunks(g)
        /\ mres[g] = "ok"
        /\ DOMAIN cache[g] = Queries
        /\ cache[g][query[g]] = ret[g]

\* the call of g has run _save_cache
Wrote(g) == Len(trace[g]) > 0 /\ trace[g][Len(trace[g])] = "save"

\* the outcome of the file write of the cache write of g's query
SaveOf(g) == IF query[g] \in DOMAIN saved[g] THEN saved[g][query[g]] ELSE "none"

\* C11: a successful cache write leaves the file holding the whole in-memory
\* mapping, so that a generator constructed from the file has every stored query
\* with its entry; a failed write raises nothing: the call returns its answer, the
\* entry stays in self.cache, and a later call for the query hits.
C11_WholeFileWrite ==
    \A g \in Gens :
        /\ (pc[g] \in {"return", "done"} /\ Wrote(g) /\ SaveOf(g) = "ok") =>
              /\ file.kind = "json"
              /\ load_cache(file) = cache[g]
              /\ \A q \in DOMAIN cache[g] : LookupOutcome(load_cache(file), q) = "hit"
        /\ (pc[g] = "done" /\ Wrote(g) /\ SaveOf(g) = "failed") =>
              /\ ret[g] = [answer |-> answer[g], chunks |-> chunks[g]]
              /\ Len(ret[g].answer) > 0
              /\ cache[g][query[g]] = ret[g]
        /\ (/\ pc[g] = "done"
            /\ query[g] \in DOMAIN served[g]
            /\ Len(served[g][query[g]].chunks) > 0
            /\ SaveOf(g) = "failed")
           => (trace[g] = <<>> /\ ret[g] = served[g][query[g]])

C11_Witness ==
    \E g \in Gens :
        /\ pc[g] = "done" /\ Wrote(g)
        /\ SaveOf(g) = "ok"
        /\ DOMAIN cache[g] = Queries
        /\ load_cache(file) = cache[g]

C11_WitnessFailed ==
    \E g \in Gens :
        /\ pc[g] = "done"
        /\ trace[g] = <<>>
        /\ query[g] \in DOMAIN served[g]
        /\ SaveOf(g) = "failed"
        /\ file = Corrupt
        /\ ret[g] = served[g][query[g]]

\* C30: within one generator instance an entry of self.cache, once present, is
\* never changed or removed by later generate_expert_answer calls, whatever the
\* query and the outcome of the model call, so the set of cached keys only grows;
\* and a call that hits the cache returns at once and writes no cache file.
C30_Step ==
    \A g \in Gens :
        /\ \A q \in DOMAIN cache[g] :
              q \in DOMAIN cache'[g] /\ cache'[g][q] = cache[g][q]
        /\ (pc[g] = "lookup" /\ query[g] \in DOMAIN cache[g]) =>
              /\ pc'[g] \in {"lookup", "done"}
              /\ file' = file
              /\ saved' = saved
              /\ trace' = trace

C30_EntriesStable == [][C30_Step]_vars

\* q1 was answered and cached, a call for q2 missed, its model call raised and it
\* wrote its entry, and a later call for q1 hits the entry it was served before
C30_Witness ==
    \E g \in Gens :
        /\ pc[g] = "done" /\ query[g] = "q1" /\ trace[g] = <<>>
        /\ DOMAIN served[g] = {"q1", "q2"}
        /\ DOMAIN cache[g] = {"q1", "q2"}
        /\ cache[g]["q2"].answer = simple_concat_answer(cache[g]["q2"].chunks, MaxCharsDefault)
        /\ cache[g]["q1"] = served[g]["q1"]
        /\ ret[g] = cache[g]["q1"]
        /\ "q2" \in DOMAIN saved[g]

-----------------------------------------------------------------------------
(* Two generator instances on one cache file: SpecRace *)

Instances == {1, 2}

\* each instance serves one request, as a script run that builds its own ScholarAI
RaceCall(g) ==
    /\ DOMAIN served[g] = {}
    /\ \E q \in Queries : Call(g, q)

\* both instances have loaded the same file
InitRace ==
    /\ corpus = ServingCorpus
    /\ collection = build_vector_store(ServingCorpus)
    /\ IdleBld
    /\ IdleRet
    /\ file \in InitFiles
    /\ cache = [g \in Instances |-> load_cache(file)]
    /\ pc = [g \in Instances |-> "idle"]
    /\ query = [g \in Instances |-> NoQuery]
    /\ chunks = [g \in Instances |-> <<>>]
    /\ answer = [g \in Instances |-> <<>>]
    /\ mres = [g \in Instances |-> "none"]
    /\ ret = [g \in Instances |-> None]
    /\ trace = [g \in Instances |-> <<>>]
    /\ served = [g \in Instances |-> <<>>]
    /\ saved = [g \in Instances |-> <<>>]
    /\ IdleSeg
    /\ IdleWeb /\ IdleAsm

NextRace ==
    /\ UNCHANGED <<idxVars, retVars, segVars, srcVars, askVars, asmVars>>
    /\ \E g \in DOMAIN pc :
          \/ RaceCall(g)
          \/ CacheHit(g)
          \/ CacheMiss(g)
          \/ Retrieve(g)
          \/ NoChunks(g)
          \/ ModelSuccess(g)
          \/ ModelFailure(g)
          \/ Fallback(g)
          \/ CacheWrite(g)
          \/ SaveCache(g)
          \/ Return(g)
          \/ Finish(g)

SpecRace == InitRace /\ [][NextRace]_vars

FileKeys == IF file.kind = "json" THEN DOMAIN json_load(file.data) ELSE {}

\* g wrote the entry of q to the file and the write succeeded
WroteEntry(g, q) == q \in DOMAIN saved[g] /\ saved[g][q] = "ok"

\* C27: a lost update on the cache file is possible with concurrent writers: a
\* write replaces the whole file by the writer's own in-memory mapping and nothing
\* excludes another writer, so the file never holds more than one instance knows,
\* and the entry another instance wrote can be missing from it.
C27_FileOfOneWriter ==
    \E g \in Instances : FileKeys \subseteq DOMAIN cache[g]

\* both instances missed, each for its own query, and both wrote; the file holds
\* only the entry of the second writer
C27_Witness ==
    /\ WroteEntry(1, "q1") /\ WroteEntry(2, "q2")
    /\ mres[1] = "ok" /\ pc[1] = "return"
    /\ pc[2] = "return"
    /\ FileKeys = {"q2"}

\* both instances are between their lookup and their write at the same time
C27_WitnessOverlap ==
    /\ pc[1] = "save" /\ pc[2] = "save"
    /\ query[1] = "q1" /\ query[2] = "q2"

-----------------------------------------------------------------------------
(* generate_expert_answer_structured: SpecStructured *)

ErrorAnswer == <<"Error generating answer.">>

\* the except branch of the structured entry point: a fixed text is the answer
ModelFailureStructured(g) ==
    /\ Step(g, "model", "cachewrite")
    /\ answer' = [answer EXCEPT ![g] = ErrorAnswer]
    /\ mres' = [mres EXCEPT ![g] = "raised"]
    /\ Log(g, "model")
    /\ UNCHANGED <<file, cache, query, chunks, ret, served, saved>>

NextStructured ==
    /\ UNCHANGED <<idxVars, retVars, segVars, srcVars, askVars, asmVars>>
    /\ \E g \in DOMAIN pc :
          \/ \E q \in Queries : Call(g, q)
          \/ CacheHit(g)
          \/ CacheMiss(g)
          \/ Retrieve(g)
          \/ NoChunks(g)
          \/ ModelSuccess(g)
          \/ ModelFailureStructured(g)
          \/ CacheWrite(g)
          \/ SaveCache(g)
          \/ Return(g)
          \/ Finish(g)

SpecStructured == InitGen /\ [][NextStructured]_vars

\* C28: generate_expert_answer_structured handles a model failure as
\* generate_expert_answer does: when the model call raised, the answer returned and
\* stored in the cache under the query is the extractive fallback built from the
\* texts of the retrieved chunks.
C28_StructuredFallsBack ==
    \A g \in Gens :
        (pc[g] = "done" /\ mres[g] = "raised") =>
            /\ ret[g].answer = simple_concat_answer(chunks[g], MaxCharsDefault)
            /\ ret[g].chunks = chunks[g]
            /\ query[g] \in DOMAIN cache[g]
            /\ cache[g][query[g]] = ret[g]

\* the structured call returned after its model call raised, with two chunks retrieved
C28_Witness ==
    \E g \in Gens :
        /\ pc[g] = "done" /\ mres[g] = "raised"
        /\ Len(chunks[g]) = 2
        /\ ret[g].answer = ErrorAnswer
        /\ cache[g][query[g]].answer = ErrorAnswer

-----------------------------------------------------------------------------
(* Construction from an arbitrary cache file and the first lookup: SpecLoad *)

\* values a member of the file's JSON object can have: an entry as the code writes
\* it, an entry without chunks, an entry without answer, a value that is no object
EntryPool ==
    << PriorEntry, [answer |-> <<"m", "1">>], [chunks |-> <<>>], NotADict("str") >>

\* the text of a JSON object whose q1 has EntryPool[i] and whose q2 has EntryPool[j];
\* 0 stands for no member
ObjectFile(i, j) ==
    [kind |-> "json",
     data |-> (IF i = 0 THEN <<>> ELSE << <<"q1", EntryPool[i]>> >>)
              \o (IF j = 0 THEN <<>> ELSE << <<"q2", EntryPool[j]>> >>)]

OtherFiles == <<Absent, Unreadable, Corrupt, JsonValue("list"), JsonValue("number")>>

IdleIdx == corpus = <<>> /\ collection = <<>> /\ IdleBld

InitLoad ==
    /\ IdleIdx /\ IdleRet /\ IdleSeg /\ IdleWeb /\ IdleAsm
    /\ \/ \E i \in 0..Len(EntryPool), j \in 0..Len(EntryPool) : file = ObjectFile(i, j)
       \/ \E i \in DOMAIN OtherFiles : file = OtherFiles[i]
    /\ cache = [g \in {1} |-> <<>>]
    /\ pc = [g \in {1} |-> "new"]
    /\ query = [g \in {1} |-> NoQuery]
    /\ chunks = [g \in {1} |-> <<>>]
    /\ answer = [g \in {1} |-> <<>>]
    /\ mres = [g \in {1} |-> "none"]
    /\ ret = [g \in {1} |-> None]
    /\ trace = [g \in {1} |-> <<>>]
    /\ served = [g \in {1} |-> <<>>]
    /\ saved = [g \in {1} |-> <<>>]

NextLoad ==
    /\ UNCHANGED <<idxVars, retVars, segVars, srcVars, askVars, asmVars>>
    /\ \E g \in DOMAIN pc :
          \/ Construct(g)
          \/ \E q \in Queries : Call(g, q)
          \/ CacheHit(g)
          \/ CacheMiss(g)
          \/ CacheRaise(g)

SpecLoad == InitLoad /\ [][NextLoad]_vars

\* the file holds a mapping from query to {answer, chunks}
ConformingFile(f) ==
    /\ f.kind = "json"
    /\ \A i \in 1..Len(f.data) :
          IsDict(f.data[i][2]) /\ {"answer", "chunks"} \subseteq DOMAIN f.data[i][2]

\* C12: construction never fails because of the cache file; when the file is absent,
\* unreadable, not parseable, or parseable but no mapping from query to
\* {answer, chunks}, self.cache is the empty mapping; after construction
\* self.cache is always a mapping whose entries have answer and chunks, so no
\* later call raises at the lookup.
C12_LoadSafe ==
    \A g \in Gens :
        pc[g] /= "new" =>
            /\ IsDict(cache[g])
            /\ \A q \in DOMAIN cache[g] :
                   IsDict(cache[g][q]) /\ {"answer", "chunks"} \subseteq DOMAIN cache[g][q]
            /\ ~ConformingFile(file) => DOMAIN cache[g] = {}
            /\ pc[g] /= "raised"

\* the part of C12 the code keeps: a missing, unreadable or unparseable file gives
\* the empty mapping
C12_Witness ==
    \E g \in Gens :
        /\ pc[g] = "retrieve"
        /\ file = Corrupt
        /\ DOMAIN cache[g] = {}

-----------------------------------------------------------------------------
(* Index build and direct retrieval: SpecRet *)

MaxCorpus == 2
MaxK == 2

Sec1 == <<"a", "b", "s">>
Sec2 == <<"r", "e", "s">>

\* chunks as the segmenter emits them; two of them share their text
ChunkPool ==
    { SegChunk(<<"x">>, Id1, <<"T", "1">>, Sec1, 0),
      SegChunk(<<"y">>, Id1, <<"T", "1">>, Sec2, 1),
      SegChunk(<<"x">>, Id2, <<"T", "2">>, Sec1, 0) }

Corpora == UNION {[1..n -> ChunkPool] : n \in 0..MaxCorpus}

\* build_vector_store: an offline batch run, never concurrent with serving
BuildIndex ==
    /\ \E chs \in Corpora :
          /\ corpus' = chs
          /\ collection' = build_vector_store(chs)
    /\ rcall' = NoCall /\ sres' = NoResults /\ rout' = <<>>
    /\ UNCHANGED <<bldVars, concatVars, genVars, segVars, srcVars, askVars, asmVars>>

\* RetrievalSystem.retrieve(query, k) called directly
RetrieveCall ==
    /\ \E q \in Queries, k \in 1..MaxK :
          /\ rcall' = [query |-> q, k |-> k]
          /\ \E results \in collection_query(collection, k) :
                /\ sres' = results
                /\ rout' = retrieve(results)
    /\ UNCHANGED <<idxVars, concatVars, genVars, segVars, srcVars, askVars, asmVars>>

IdleGen ==
    /\ file = Absent
    /\ cache = <<>> /\ pc = <<>> /\ query = <<>> /\ chunks = <<>> /\ answer = <<>>
    /\ mres = <<>> /\ ret = <<>> /\ trace = <<>> /\ served = <<>> /\ saved = <<>>

\* RetrievalSystem.__init__: get_or_create_collection on an empty store
InitRet ==
    /\ corpus = <<>>
    /\ collection = <<>>
    /\ IdleBld
    /\ IdleRet
    /\ IdleGen
    /\ IdleSeg
    /\ IdleWeb /\ IdleAsm

NextRet == BuildIndex \/ RetrieveCall

SpecRet == InitRet /\ [][NextRet]_vars

Returned == rcall.k > 0

\* C8: every record retrieve returns carries the text of the chunk that was indexed
\* under its id, and metadata paper_id, paper_title and section equal to that
\* chunk's values at indexing time.
C8_RoundTrip ==
    Returned =>
        \A r \in 1..Len(rout) :
            \E i \in 1..Len(corpus) :
                /\ rout[r].id = <<"chunk_", i - 1>>
                /\ rout[r].text = corpus[i].text
                /\ rout[r].metadata.paper_id = corpus[i].paper_id
                /\ rout[r].metadata.paper_title = corpus[i].paper_title
                /\ rout[r].metadata.section = corpus[i].section

C8_Witness ==
    /\ Returned
    /\ Len(rout) = 2
    /\ Len(corpus) = 2
    /\ rout[1].id = <<"chunk_", 1>>
    /\ rout[1].text = rout[2].text
    /\ rout[1].metadata.paper_id /= rout[2].metadata.paper_id

\* C9: retrieve returns at most k records of shape {text, metadata, id}, exactly the
\* store's records in the store's order; nothing when the collection is empty or the
\* store yields nothing.
C9_RetrieveShape ==
    Returned =>
        /\ Len(rout) <= rcall.k
        /\ Len(rout) = Len(sres.ids[1])
        /\ \A i \in 1..Len(rout) :
              /\ DOMAIN rout[i] = {"text", "metadata", "id"}
              /\ rout[i].id = sres.ids[1][i]
              /\ rout[i].text = sres.documents[1][i]
              /\ rout[i].metadata = sres.metadatas[1][i]
        /\ Len(collection) = 0 => rout = <<>>
        /\ Len(sres.ids[1]) = 0 => rout = <<>>

C9_Witness ==
    /\ Returned
    /\ Len(collection) = 2
    /\ rcall.k = 2
    /\ Len(rout) = 2
    /\ rout[1].id = <<"chunk_", 1>>
    /\ rout[2].id = <<"chunk_", 0>>

C9_WitnessEmpty ==
    /\ Returned
    /\ Len(collection) = 0
    /\ rout = <<>>

\* the metadata fields store_embeddings persists with a record
PersistedFields == {"paper_id", "paper_title", "authors", "section", "chunk_index"}

\* C25: every record retrieve returns carries a similarity_score attached at query
\* time, and similarity_score is not among the metadata fields the indexer persists.
C25_ScoreAttached ==
    /\ \A i \in 1..Len(collection) : DOMAIN collection[i].metadata = PersistedFields
    /\ "similarity_score" \notin PersistedFields
    /\ Returned =>
          \A r \in 1..Len(rout) :
              \/ "similarity_score" \in DOMAIN rout[r]
              \/ "similarity_score" \in DOMAIN rout[r].metadata

\* a record comes back with the persisted metadata only
C25_Witness ==
    /\ Returned
    /\ Len(rout) = 1
    /\ DOMAIN rout[1].metadata = PersistedFields

-----------------------------------------------------------------------------
(* simple_concat_answer on bounded chunk lists and budgets: SpecConcat *)

MaxConcat == 3
MaxBudget == 5

\* chunk texts without dots, so that three trailing dots are the marker
ConcatTexts == {<<"a">>, <<"b", "c">>, <<"d", "e", "f">>}

SimpleConcatCall ==
    /\ ~scDone
    /\ scOut' = simple_concat_answer([i \in 1..Len(scIn.texts) |-> [text |-> scIn.texts[i]]],
                                     scIn.max_chars)
    /\ scDone' = TRUE
    /\ UNCHANGED <<idxVars, rcall, sres, rout, genVars, segVars, srcVars, askVars, asmVars, scIn>>

InitConcat ==
    /\ IdleIdx /\ IdleGen /\ IdleSeg /\ IdleWeb /\ IdleAsm
    /\ rcall = NoCall /\ sres = NoResults /\ rout = <<>>
    /\ \E texts \in UNION {[1..n -> ConcatTexts] : n \in 0..MaxConcat},
          max_chars \in 0..MaxBudget :
          scIn = [texts |-> texts, max_chars |-> max_chars]
    /\ scOut = <<>>
    /\ scDone = FALSE

NextConcat == SimpleConcatCall

SpecConcat == InitConcat /\ [][NextConcat]_vars

EndsWithEllipsis(s) == Len(s) >= 3 /\ SubSeq(s, Len(s) - 2, Len(s)) = Ellipsis

\* the answer without its trailing marker
BeforeEllipsis(s) == IF EndsWithEllipsis(s) THEN SubSeq(s, 1, Len(s) - 3) ELSE s

RECURSIVE TotalLen(_)
TotalLen(texts) == IF Len(texts) = 0 THEN 0 ELSE Len(Head(texts)) + TotalLen(Tail(texts))

\* C21: for every chunk sequence and budget the fallback answer has, its trailing
\* ellipsis marker not counted, at most max_chars characters with the separators
\* included, and the marker is appended exactly when the chunk texts did not all
\* fit within the budget.
C21_WithinBudget ==
    scDone =>
        /\ Len(BeforeEllipsis(scOut)) <= scIn.max_chars
        /\ EndsWithEllipsis(scOut) <=> TotalLen(scIn.texts) > scIn.max_chars

\* the second text is cut: the answer is "a b..." for a budget of 2
C21_Witness ==
    /\ scDone
    /\ scIn = [texts |-> << <<"a">>, <<"b", "c">> >>, max_chars |-> 2]
    /\ scOut = <<"a", " ", "b", ".", ".", ".">>

-----------------------------------------------------------------------------
(* build_vector_store step by step: SpecBuild *)

MaxBatch == 2

\* BatchAt that hands the batch over last text first
BatchAtReversed(texts, i, batch_size) ==
    LET b == SubSeq(texts, i + 1, Min(i + batch_size, Len(texts)))
    IN  [j \in 1..Len(b) |-> b[Len(b) + 1 - j]]

\* batch_texts = texts[i:i + batch_size], i counted from 0
BatchAt(texts, i, batch_size) ==
    SubSeq(texts, i + 1, Min(i + batch_size, Len(texts)))

\* build_vector_store is called; load_chunks has read the corpus
BuildStart ==
    /\ bpc = "idle"
    /\ \E chs \in Corpora, batch_size \in 1..MaxBatch :
          /\ corpus' = chs
          /\ bsize' = batch_size
    /\ bi' = 0
    /\ embedded' = <<>>
    /\ prior' = [present |-> present, collection |-> collection]
    /\ bpc' = "embed"
    /\ UNCHANGED <<collection, present>>

\* one round of the loop of create_embeddings
EmbedBatch ==
    /\ bpc = "embed"
    /\ bi < Len(corpus)
    /\ LET batch_texts == BatchAt(Texts(corpus), bi, bsize)
       IN  embedded' = embedded \o [j \in 1..Len(batch_texts) |-> Encode(batch_texts[j])]
    /\ bi' = bi + bsize
    /\ UNCHANGED <<collection, corpus, present, bpc, bsize, prior>>

\* model.encode raises on a batch and the exception leaves build_vector_store, with
\* the store deleted first
EmbedRaiseAfterDelete ==
    /\ bpc = "embed"
    /\ bi < Len(corpus)
    /\ bpc' = "raised_embed"
    /\ present' = FALSE
    /\ collection' = <<>>
    /\ UNCHANGED <<corpus, bsize, bi, embedded, prior>>

\* model.encode raises on a batch: the exception leaves create_embeddings and
\* build_vector_store
EmbedRaise ==
    /\ bpc = "embed"
    /\ bi < Len(corpus)
    /\ bpc' = "raised_embed"
    /\ UNCHANGED <<collection, corpus, present, bsize, bi, embedded, prior>>

\* the loop is over: create_embeddings returns, store_embeddings begins
EmbedReturn ==
    /\ bpc = "embed"
    /\ bi >= Len(corpus)
    /\ bpc' = "delete"
    /\ UNCHANGED <<collection, corpus, present, bsize, bi, embedded, prior>>

\* client.delete_collection succeeds
DeleteCollection ==
    /\ bpc = "delete"
    /\ present
    /\ present' = FALSE
    /\ collection' = <<>>
    /\ bpc' = "create"
    /\ UNCHANGED <<corpus, bsize, bi, embedded, prior>>

\* client.delete_collection raises (no such collection, or the store refuses): the
\* bare except passes
DeleteRaise ==
    /\ bpc = "delete"
    /\ bpc' = "create"
    /\ UNCHANGED <<collection, corpus, present, bsize, bi, embedded, prior>>

\* client.create_collection: a new, empty collection
CreateCollection ==
    /\ bpc = "create"
    /\ ~present
    /\ present' = TRUE
    /\ collection' = <<>>
    /\ bpc' = "add"
    /\ UNCHANGED <<corpus, bsize, bi, embedded, prior>>

\* client.create_collection raises because the name is taken: the exception leaves
\* build_vector_store
CreateRaise ==
    /\ bpc = "create"
    /\ present
    /\ bpc' = "raised_create"
    /\ UNCHANGED <<collection, corpus, present, bsize, bi, embedded, prior>>

\* collection.add of all records in one call
AddRecords ==
    /\ bpc = "add"
    /\ Len(embedded) = Len(corpus)
    /\ collection' = store_embeddings(corpus, embedded)
    /\ bpc' = "done"
    /\ UNCHANGED <<corpus, present, bsize, bi, embedded, prior>>

\* collection.add raises: the exception leaves build_vector_store
AddRaise ==
    /\ bpc = "add"
    /\ bpc' = "raised_add"
    /\ UNCHANGED <<collection, corpus, present, bsize, bi, embedded, prior>>

\* build_vector_store has returned or raised; its locals are gone
BuildEnd ==
    /\ bpc \in {"done", "raised_embed", "raised_create", "raised_add"}
    /\ bpc' = "idle"
    /\ bsize' = 0 /\ bi' = 0 /\ embedded' = <<>> /\ prior' = NoStore
    /\ UNCHANGED <<collection, corpus, present>>

InitBuild ==
    /\ corpus = <<>> /\ collection = <<>>
    /\ present \in BOOLEAN
    /\ bpc = "idle" /\ bsize = 0 /\ bi = 0 /\ embedded = <<>> /\ prior = NoStore
    /\ IdleRet /\ IdleGen /\ IdleSeg /\ IdleWeb /\ IdleAsm

NextBuild ==
    /\ UNCHANGED <<retVars, genVars, segVars, srcVars, askVars, asmVars>>
    /\ \/ BuildStart
       \/ EmbedBatch
       \/ EmbedRaise
       \/ EmbedReturn
       \/ DeleteCollection
       \/ DeleteRaise
       \/ CreateCollection
       \/ CreateRaise
       \/ AddRecords
       \/ AddRaise
       \/ BuildEnd

SpecBuild == InitBuild /\ [][NextBuild]_vars

\* C13: after a successful build over n chunks, with any batch size, the collection
\* exists and holds exactly n records and none of an earlier build: record i has
\* id chunk_i, the text and the metadata of chunk i and the embedding of the text
\* of chunk i, whatever the store held before and whether or not the deletion
\* failed.
C13_BuildExact ==
    bpc = "done" =>
        /\ present
        /\ Len(collection) = Len(corpus)
        /\ \A i \in 1..Len(corpus) :
              /\ collection[i].id = <<"chunk_", i - 1>>
              /\ collection[i].document = corpus[i].text
              /\ collection[i].metadata =
                    [paper_id    |-> corpus[i].paper_id,
                     paper_title |-> corpus[i].paper_title,
                     authors     |-> Join(CommaSpace, corpus[i].authors),
                     section     |-> corpus[i].section,
                     chunk_index |-> corpus[i].chunk_index]
              /\ collection[i].embedding = Encode(corpus[i].text)

\* a rebuild with two batches over a store that held a longer collection
C13_Witness ==
    /\ bpc = "done"
    /\ prior.present /\ Len(prior.collection) = 2
    /\ Len(corpus) = 1
    /\ Len(collection) = 1

C13_WitnessBatches ==
    /\ bpc = "done"
    /\ bsize = 1
    /\ Len(corpus) = 2
    /\ ~prior.present
    /\ collection[1].embedding /= collection[2].embedding

\* no step of create_embeddings touches the store
C14_EmbedLeavesStore ==
    bpc = "embed" => (collection' = collection /\ present' = present)

C14_AtRaise ==
    bpc = "raised_embed" =>
        /\ present = prior.present
        /\ collection = prior.collection

\* C14: when the embedding service raises on a batch, the exception leaves
\* build_vector_store and the store is as the build found it: the earlier
\* collection is neither deleted nor replaced, and no collection with part of the
\* corpus is persisted.
C14_EmbedFailureKeepsStore == []C14_AtRaise /\ [][C14_EmbedLeavesStore]_vars

\* the second batch raises while the store holds an earlier build
C14_Witness ==
    /\ bpc = "raised_embed"
    /\ bi > 0 /\ Len(embedded) > 0
    /\ prior.present /\ Len(prior.collection) > 0
    /\ collection = prior.collection

-----------------------------------------------------------------------------
(* Context assembly and prompt on bounded retrieval results: SpecAsm *)

MaxRanked == 3

\* a chunk as retrieve returns it; the store keeps no similarity_score
Ranked(id, text, paper_id) ==
    [text |-> text, metadata |-> [paper_id |-> paper_id], id |-> id]

\* a chunk whose metadata carries a similarity_score
Scored(id, text, paper_id, score) ==
    [text |-> text, metadata |-> [paper_id |-> paper_id, similarity_score |-> score], id |-> id]

\* the chunks the retrieval results are drawn from, by position
RankedPool ==
    << Ranked(<<"c", "0">>, <<"a">>, Id1),
       Ranked(<<"c", "1">>, <<"a">>, Id2),
       Scored(<<"c", "2">>, <<"a", " ">>, Id2, 2),
       Scored(<<"c", "3">>, <<"b">>, Id1, 2),
       Scored(<<"c", "4">>, <<"c">>, Id2, 1),
       Scored(<<"c", "5">>, <<"d">>, Id1, 0) >>

RankedChunks(ix) == [i \in 1..Len(ix) |-> RankedPool[ix[i]]]

\* generate_expert_answer, line 148: the context is assembled and not used
PrepareContext ==
    /\ asmPc = "retrieved"
    /\ Len(asmIn) > 0
    /\ asmOut' = [asmOut EXCEPT !.kept = prepared_chunks(RankedChunks(asmIn)),
                                !.context = prepare_context(RankedChunks(asmIn))]
    /\ asmPc' = "prepared"
    /\ UNCHANGED <<idxVars, retVars, genVars, segVars, srcVars, askVars, asmIn>>

\* generate_expert_answer, line 151: the prompt is built from the local chunks,
\* which are also the chunks cached and returned with the answer
BuildPrompt ==
    /\ asmPc = "prepared"
    /\ asmOut' = [asmOut EXCEPT !.prompt = build_prompt(Question, RankedChunks(asmIn)),
                                !.returned = RankedChunks(asmIn)]
    /\ asmPc' = "prompted"
    /\ UNCHANGED <<idxVars, retVars, genVars, segVars, srcVars, askVars, asmIn>>

InitAsm ==
    /\ IdleIdx /\ IdleRet /\ IdleGen /\ IdleSeg /\ IdleWeb
    /\ asmIn \in UNION {InjSeqs(1..Len(RankedPool), n) : n \in 1..MaxRanked}
    /\ asmOut = NoAssembly
    /\ asmPc = "retrieved"

NextAsm == PrepareContext \/ BuildPrompt

SpecAsm == InitAsm /\ [][NextAsm]_vars

Ids(cs) == [i \in 1..Len(cs) |-> cs[i].id]

\* the positions whose trimmed text no earlier position has
FirstOfText(cs) ==
    {i \in 1..Len(cs) : \A j \in 1..i - 1 : strip(cs[j].text) /= strip(cs[i].text)}

\* the place of position i among the positions K: behind the greater scores and
\* behind the earlier positions of the same score
PlaceIn(K, cs, i) ==
    1 + Cardinality({j \in K : \/ similarity_score(cs[j]) > similarity_score(cs[i])
                               \/ /\ similarity_score(cs[j]) = similarity_score(cs[i])
                                  /\ j < i})

\* the post-assembly chunk sequence
Assembled(cs) ==
    LET K == FirstOfText(cs)
    IN  [r \in 1..Cardinality(K) |-> cs[CHOOSE i \in K : PlaceIn(K, cs, i) = r]]

\* C17: context assembly keeps the first chunk of every distinct trimmed text,
\* orders the kept chunks by descending similarity_score (missing score 0, equal
\* scores in first-occurrence order) and joins the kept texts by single spaces.
C17_ContextAssembly ==
    asmPc /= "retrieved" =>
        LET want == Assembled(RankedChunks(asmIn))
        IN  /\ Ids(asmOut.kept) = Ids(want)
            /\ asmOut.context = Join(Space, [i \in 1..Len(want) |-> want[i].text])

\* a duplicate from another paper is dropped and the scored chunk moves forward
C17_Witness ==
    /\ asmPc = "prepared"
    /\ asmIn = <<1, 2, 4>>
    /\ asmOut.context = <<"b", " ", "a">>

\* a missing score counts as 0 and equal scores keep their order
C17_WitnessTies ==
    /\ asmPc = "prepared"
    /\ asmIn = <<6, 1, 5>>
    /\ asmOut.context = <<"c", " ", "d", " ", "a">>

\* C16: the evidence list numbered in the prompt is the post-assembly chunk
\* sequence, so no two numbered items have the same trimmed text, and the chunks
\* returned and cached with the answer are the ones the numbers refer to.
C16_PromptFromAssembled ==
    asmPc = "prompted" =>
        LET want == Assembled(RankedChunks(asmIn))
        IN  /\ asmOut.prompt.papers =
                  Join(BlankLine, [i \in 1..Len(want) |-> Numbered(i, want[i].text)])
            /\ Ids(asmOut.returned) = Ids(want)

\* two retrieved chunks of the same text are both numbered in the prompt
C16_Witness ==
    /\ asmPc = "prompted"
    /\ asmIn = <<1, 2>>
    /\ asmOut.prompt.papers = <<"[", "1", "]", " ", "a", "\n", "\n", "[", "2", "]", " ", "a">>
    /\ Len(asmOut.returned) = 2

-----------------------------------------------------------------------------
(* chunk_text on bounded inputs: SpecChunk *)

MaxTextLen == 7
MaxTokens == 3

TextAlphabet == {"a", "b", " "}
SmallTexts == UNION {[1..n -> TextAlphabet] : n \in 0..MaxTextLen}

ChunkTextCall ==
    /\ ~segDone
    /\ ctOut' = chunk_text(ctIn.text, ctIn.min_tokens, ctIn.max_tokens)
    /\ segDone' = TRUE
    /\ UNCHANGED <<idxVars, retVars, genVars, srcVars, askVars, asmVars, ctIn, ssIn, ssOut,
                   cleanVars, procVars>>

InitChunk ==
    /\ IdleIdx /\ IdleRet /\ IdleGen /\ IdleWeb /\ IdleAsm
    /\ \E text \in SmallTexts, max_tokens \in 1..MaxTokens :
       \E min_tokens \in 1..max_tokens :
          ctIn = [text |-> text, min_tokens |-> min_tokens, max_tokens |-> max_tokens]
    /\ ctOut = <<>>
    /\ ssIn = <<>> /\ ssOut = NoSections
    /\ segDone = FALSE
    /\ IdleClean /\ IdleProc

NextChunk == ChunkTextCall

SpecChunk == InitChunk /\ [][NextChunk]_vars

-----------------------------------------------------------------------------
(* split_into_sections on bounded inputs: SpecSplit *)

MaxLines == 3

LnResultsDiscussion == <<"R", "e", "s", "u", "l", "t", "s", " ", "a", "n", "d", " ", "D", "i", "s", "c", "u", "s", "s", "i", "o", "n">>
LnResults50 == <<"r", "e", "s", "u", "l", "t", "s", " ">> \o Rep("x", 42)
LnResults49 == <<"r", "e", "s", "u", "l", "t", "s", " ">> \o Rep("x", 41)
LnIntroPadded == <<" ", " ", "I", "N", "T", "R", "O", "D", "U", "C", "T", "I", "O", "N">> \o Rep(" ", 40)
LnBody == <<"s", "o", "m", "e", " ", "t", "e", "x", "t">>
LnMid == <<"t", "h", "e", " ", "r", "e", "s", "u", "l", "t", "s">>
LnEmpty == <<>>

LinePool ==
    {LnResultsDiscussion, LnResults50, LnResults49, LnIntroPadded, LnBody, LnMid, LnEmpty}

SplitCall ==
    /\ ~segDone
    /\ ssOut' = split_into_sections(ssIn)
    /\ segDone' = TRUE
    /\ UNCHANGED <<idxVars, retVars, genVars, srcVars, askVars, asmVars, ctIn, ctOut, ssIn,
                   cleanVars, procVars>>

InitSplit ==
    /\ IdleIdx /\ IdleRet /\ IdleGen /\ IdleWeb /\ IdleAsm
    /\ ctIn = NoChunkCall /\ ctOut = <<>>
    /\ ssIn \in UNION {[1..n -> LinePool] : n \in 0..MaxLines}
    /\ ssOut = NoSections
    /\ segDone = FALSE
    /\ IdleClean /\ IdleProc

NextSplit == SplitCall

SpecSplit == InitSplit /\ [][NextSplit]_vars

\* the header rule as the specification words it
ClaimedHeader(line) ==
    LET t == lower(strip(line)) IN
    /\ Len(t) < 50
    /\ \E h \in 1..Len(SECTION_HEADERS) :
          Len(t) >= Len(SECTION_HEADERS[h])
          /\ \A c \in 1..Len(SECTION_HEADERS[h]) : t[c] = SECTION_HEADERS[h][c]

\* C6: the sections of the result are "unknown" and one per line that, trimmed and
\* lower-cased, begins with a section name and is shorter than 50 characters; every
\* other line (a long line that begins with a section name included) is body text of
\* the section open at that point, and the lines before the first header are the
\* text of "unknown".
C6_SectionHeaders ==
    segDone =>
        LET n == Len(ssIn)
            H == {i \in 1..n : ClaimedHeader(ssIn[i])}
            Label(i) == lower(strip(ssIn[i]))
            After(i) == {j \in H : j > i}
            NextH(i) == IF After(i) = {} THEN n + 1
                        ELSE CHOOSE j \in After(i) : \A k \in After(i) : j <= k
            Body(a, b) == Join(Space, SubSeq(ssIn, a, b))
            Reopened(i) == \E j \in After(i) : Label(j) = Label(i)
        IN  /\ DOMAIN ssOut.text = {Unknown} \cup {Label(i) : i \in H}
            /\ ssOut.text[Unknown] = Body(1, NextH(0) - 1)
            /\ \A i \in H : ~Reopened(i) => ssOut.text[Label(i)] = Body(i + 1, NextH(i) - 1)

C6_Witness ==
    /\ segDone
    /\ ssIn = <<LnBody, LnResultsDiscussion, LnResults50>>
    /\ ssOut.order = <<Unknown, lower(LnResultsDiscussion)>>
    /\ ssOut.text[Unknown] = LnBody
    /\ ssOut.text[lower(LnResultsDiscussion)] = LnResults50

C6_WitnessTrimmed ==
    /\ segDone
    /\ ssIn = <<LnIntroPadded, LnResults49, LnMid>>
    /\ Len(ssOut.order) = 3
    /\ ssOut.text[LnResults49] = LnMid

\* the section a body line at position i belongs to: the label of the last header
\* line before it, Unknown when there is none
OwnerOf(lines, i) ==
    LET before == {j \in 1..(i - 1) : is_header(lines[j])}
    IN  IF before = {} THEN Unknown
        ELSE lower(strip(lines[CHOOSE j \in before : \A k \in before : k <= j]))

\* the body lines of section k, in input order
BodyLinesOf(lines, k) ==
    LET idx == SelectSeq([i \in 1..Len(lines) |-> i],
                         LAMBDA i : ~is_header(lines[i]) /\ OwnerOf(lines, i) = k)
    IN  [n \in 1..Len(idx) |-> lines[idx[n]]]

\* C29: split_into_sections loses no body line: every input line that is not
\* detected as a header is part, in input order, of the text of the section it
\* follows, also when the same header label occurs more than once.
C29_NoBodyLineLost ==
    segDone =>
        /\ \A i \in 1..Len(ssIn) :
              ~is_header(ssIn[i]) => OwnerOf(ssIn, i) \in DOMAIN ssOut.text
        /\ \A k \in DOMAIN ssOut.text :
              ssOut.text[k] = Join(Space, BodyLinesOf(ssIn, k))

\* a header label that occurs twice, with a body line after its first occurrence
C29_Witness ==
    /\ segDone
    /\ ssIn = <<LnResults49, LnBody, LnResults49>>
    /\ ssOut.order = <<Unknown, LnResults49>>
    /\ ssOut.text[LnResults49] = <<>>

-----------------------------------------------------------------------------
(* clean_text on bounded inputs: SpecClean *)

MaxCleanLen == 4

CleanAlphabet == {"a", " ", "\t", "\n"}

CleanTextCall ==
    /\ ~segDone
    /\ clOut' = clean_text(clIn)
    /\ segDone' = TRUE
    /\ UNCHANGED <<idxVars, retVars, genVars, srcVars, askVars, asmVars,
                   ctIn, ctOut, ssIn, ssOut, clIn, procVars>>

InitClean ==
    /\ IdleIdx /\ IdleRet /\ IdleGen /\ IdleWeb /\ IdleAsm
    /\ ctIn = NoChunkCall /\ ctOut = <<>>
    /\ ssIn = <<>> /\ ssOut = NoSections
    /\ IdleProc
    /\ clIn \in UNION {[1..n -> CleanAlphabet] : n \in 0..MaxCleanLen}
    /\ clOut = <<>>
    /\ segDone = FALSE

NextClean == CleanTextCall

SpecClean == InitClean /\ [][NextClean]_vars

\* C24: clean_text returns the text with every run of whitespace collapsed to one
\* space and without leading or trailing whitespace; the result never holds two
\* consecutive spaces.
C24_RunsCollapsed ==
    segDone =>
        /\ clOut = Join(Space, split(clIn))
        /\ \A i \in 1..Len(clOut) - 1 : ~(clOut[i] = " " /\ clOut[i + 1] = " ")

\* a tab between two words becomes one space and the outer newline is trimmed
C24_Witness ==
    /\ segDone
    /\ clIn = <<"\n", "a", "\t", "a">>
    /\ clOut = <<"a", " ", "a">>

-----------------------------------------------------------------------------
(* process_all_papers on bounded metadata lists: SpecProc *)

MaxPapers == 2

\* the defaults min_tokens = 300 and max_tokens = 800 of chunk_text, scaled down so
\* that a section of a few words fills a chunk
MinTokensDefault == 2
MaxTokensDefault == 3

\* the section labels of line 117
SkippedSections == {<<"r", "e", "f", "e", "r", "e", "n", "c", "e", "s">>, <<"a", "c", "k", "n",
        "o", "w", "l", "e", "d", "g", "e", "m", "e", "n", "t", "s">>, <<"a", "c", "k", "n",
        "o", "w", "l", "e", "d", "g", "m", "e", "n", "t", "s">>}

\* lines 123-130
chunk_data(chunk, paper, section, chunk_index) ==
    [text |-> chunk, paper_id |-> paper.arxiv_id, paper_title |-> paper.title,
     authors |-> paper.authors, section |-> section, chunk_index |-> chunk_index]

RECURSIVE SectionsLoopPerSection(_, _, _, _, _)
\* SectionsLoop with chunk_index starting at 0 in every section
SectionsLoopPerSection(paper, sections, s, chunk_index, emitted) ==
    IF s > Len(sections.order) THEN emitted
    ELSE LET section == sections.order[s]
             section_text == clean_text(sections.text[section])
         IN  IF section \in SkippedSections
             THEN SectionsLoopPerSection(paper, sections, s + 1, chunk_index, emitted)
             ELSE LET chs == chunk_text(section_text, MinTokensDefault, MaxTokensDefault)
                  IN  SectionsLoopPerSection(paper, sections, s + 1, 0,
                          emitted \o [c \in 1..Len(chs) |->
                                         chunk_data(chs[c], paper, section, c - 1)])

RECURSIVE SectionsLoop(_, _, _, _, _)
\* the loop of lines 113-133 over the sections in insertion order
SectionsLoop(paper, sections, s, chunk_index, emitted) ==
    IF s > Len(sections.order) THEN emitted
    ELSE LET section == sections.order[s]
             section_text == clean_text(sections.text[section])
         IN  IF section \in SkippedSections
             THEN SectionsLoop(paper, sections, s + 1, chunk_index, emitted)
             ELSE LET chs == chunk_text(section_text, MinTokensDefault, MaxTokensDefault)
                  IN  SectionsLoop(paper, sections, s + 1, chunk_index + Len(chs),
                          emitted \o [c \in 1..Len(chs) |->
                                         chunk_data(chs[c], paper, section, chunk_index + c - 1)])

\* lines 109-133 for one paper whose text was extracted
paper_chunks(paper) == SectionsLoop(paper, split_into_sections(paper.lines), 1, 0, <<>>)

\* n times the one-letter word c, separated by single spaces
WordsLine(c, n) == [i \in 1..2 * n - 1 |-> IF i % 2 = 1 THEN c ELSE " "]

Paper(arxiv_id, pdf, lines) ==
    [arxiv_id |-> arxiv_id, title |-> <<"T">> \o arxiv_id,
     authors |-> <<<<"A", "n", "n">>, <<"B", "o">>>>, pdf |-> pdf, lines |-> lines]

\* the papers the metadata lists are drawn from, by position; every word of a
\* section is the section's own letter
PaperPool ==
    << Paper(<<"0", "1", ".", "1", "v", "1">>, "missing", <<>>),
       Paper(<<"0", "2", ".", "2", "v", "1">>, "unreadable", <<>>),
       Paper(<<"0", "3", ".", "3", "v", "1">>, "text",
             << WordsLine("u", MinTokensDefault), <<"I", "n", "t", "r", "o", "d", "u", "c", "t", "i", "o",
        "n">>, WordsLine("i", MaxTokensDefault + MinTokensDefault - 1),
                <<"R", "e", "s", "u", "l", "t", "s">>, WordsLine("s", MinTokensDefault) >>),
       Paper(<<"0", "4", ".", "4", "v", "1">>, "text",
             << <<"C", "o", "n", "c", "l", "u", "s", "i", "o", "n">>, WordsLine("c", MinTokensDefault),
        <<"R", "e", "f", "e", "r", "e", "n", "c", "e", "s">>, WordsLine("r", 1) >>),
       Paper(<<"0", "5", ".", "5", "v", "1">>, "text", << <<"A", "b", "s", "t", "r", "a", "c",
        "t">>, WordsLine("a", MinTokensDefault - 1) >>),
       Paper(<<"0", "6", ".", "6", "v", "1">>, "text",
             << <<"A", "b", "s", "t", "r", "a", "c", "t">>, WordsLine("a", MinTokensDefault), <<"A", "c",
        "k", "n", "o", "w", "l", "e", "d", "g", "e", "m", "e", "n", "t", "s">>, WordsLine("k", MinTokensDefault),
                <<"M", "e", "t", "h", "o", "d", "s">>, WordsLine("m", MinTokensDefault) >>) >>

\* line 99: the PDF of the paper does not exist
SkipMissing ==
    /\ ppPc = "loop" /\ ppi < Len(ppIn)
    /\ PaperPool[ppIn[ppi + 1]].pdf = "missing"
    /\ ppi' = ppi + 1
    /\ UNCHANGED <<idxVars, retVars, genVars, srcVars, askVars, asmVars,
                   ctIn, ctOut, ssIn, ssOut, segDone, cleanVars, ppIn, ppOut, ppPc>>

\* lines 103-107: extract_text_from_pdf raises
SkipUnreadable ==
    /\ ppPc = "loop" /\ ppi < Len(ppIn)
    /\ PaperPool[ppIn[ppi + 1]].pdf = "unreadable"
    /\ ppi' = ppi + 1
    /\ UNCHANGED <<idxVars, retVars, genVars, srcVars, askVars, asmVars,
                   ctIn, ctOut, ssIn, ssOut, segDone, cleanVars, ppIn, ppOut, ppPc>>

\* lines 109-133: the sections of one paper are chunked
ProcessPaper ==
    /\ ppPc = "loop" /\ ppi < Len(ppIn)
    /\ PaperPool[ppIn[ppi + 1]].pdf = "text"
    /\ ppOut' = ppOut \o paper_chunks(PaperPool[ppIn[ppi + 1]])
    /\ ppi' = ppi + 1
    /\ UNCHANGED <<idxVars, retVars, genVars, srcVars, askVars, asmVars,
                   ctIn, ctOut, ssIn, ssOut, segDone, cleanVars, ppIn, ppPc>>

\* lines 136-139: all_chunks is written to the chunks file
SaveChunks ==
    /\ ppPc = "loop" /\ ppi = Len(ppIn)
    /\ ppPc' = "saved"
    /\ UNCHANGED <<idxVars, retVars, genVars, srcVars, askVars, asmVars,
                   ctIn, ctOut, ssIn, ssOut, segDone, cleanVars, ppIn, ppi, ppOut>>

InitProc ==
    /\ IdleIdx /\ IdleRet /\ IdleGen /\ IdleWeb /\ IdleAsm
    /\ ctIn = NoChunkCall /\ ctOut = <<>>
    /\ ssIn = <<>> /\ ssOut = NoSections
    /\ segDone = FALSE
    /\ IdleClean
    /\ ppIn \in UNION {InjSeqs(1..Len(PaperPool), n) : n \in 0..MaxPapers}
    /\ ppi = 0
    /\ ppOut = <<>>
    /\ ppPc = "loop"

NextProc == SkipMissing \/ SkipUnreadable \/ ProcessPaper \/ SaveChunks

SpecProc == InitProc /\ [][NextProc]_vars

\* the emitted chunks of one paper, in emission order
ChunksOf(arxiv_id) == SelectSeq(ppOut, LAMBDA c : c.paper_id = arxiv_id)

\* C23: the chunk_index values of the chunks of one paper are 0, 1, 2, ... without
\* gap or repeat in emission order across its sections, so chunk_index is unique
\* within (paper_id, section) and increasing; discarded sections and dropped
\* remainders consume no index.
C23_IndexPerPaper ==
    \A p \in 1..Len(PaperPool) :
        LET mine == ChunksOf(PaperPool[p].arxiv_id)
        IN  /\ \A k \in 1..Len(mine) : mine[k].chunk_index = k - 1
            /\ \A j, k \in 1..Len(mine) :
                  (j /= k /\ mine[j].section = mine[k].section)
                      => mine[j].chunk_index /= mine[k].chunk_index

\* three sections, the remainder of the second one dropped: indices 0, 1, 2
C23_Witness ==
    /\ ppPc = "saved"
    /\ ppIn = <<5, 3>>
    /\ Len(ppOut) = 3
    /\ ppOut[2].section = <<"i", "n", "t", "r", "o", "d", "u", "c", "t", "i", "o", "n">>
    /\ ppOut[3].section = <<"r", "e", "s", "u", "l", "t", "s">>
    /\ ppOut[3].chunk_index = 2

Range(f) == {f[x] : x \in DOMAIN f}

RECURSIVE DiscardedLoop(_, _, _, _)
\* the words of the lines that follow a heading of a skipped section, up to the
\* next section header
DiscardedLoop(lines, i, inside, words) ==
    IF i > Len(lines) THEN words
    ELSE IF lower(strip(lines[i])) \in SkippedSections
         THEN DiscardedLoop(lines, i + 1, TRUE, words)
         ELSE IF is_header(lines[i]) THEN DiscardedLoop(lines, i + 1, FALSE, words)
         ELSE DiscardedLoop(lines, i + 1, inside,
                            IF inside THEN words \cup {w : w \in Range(split(lines[i]))}
                            ELSE words)

DiscardedWords(lines) == DiscardedLoop(lines, 1, FALSE, {})

\* C22: text that follows a heading line References, Acknowledgements or
\* Acknowledgments, up to the next section header, is discarded before chunking:
\* no emitted chunk holds words of such a section or carries such a label.
C22_BoilerplateDiscarded ==
    \A p \in 1..Len(PaperPool) :
        LET mine == ChunksOf(PaperPool[p].arxiv_id)
            gone == DiscardedWords(PaperPool[p].lines)
        IN  \A k \in 1..Len(mine) :
                /\ mine[k].section \notin SkippedSections
                /\ \A w \in gone : w \notin Range(split(mine[k].text))

\* the paper without such a heading is chunked section by section
C22_Witness ==
    /\ ppPc = "saved"
    /\ ppIn = <<3>>
    /\ Len(ppOut) = 3
    /\ ppOut[1].section = Unknown

-----------------------------------------------------------------------------
(* chunks_to_sources on bounded inputs: SpecSrc *)

MaxRecords == 2

IdNewV1 == <<"1", "2", "3", "4", ".", "5", "6", "7", "8", "v", "1">>
IdNewV2 == <<"1", "2", "3", "4", ".", "5", "6", "7", "8", "v", "2">>
IdNewBare == <<"1", "2", "3", "4", ".", "5", "6", "7", "8">>
IdOldV1 == <<"s", "o", "l", "v", "-", "i", "n", "t", "/", "9", "9", "0", "1", "0", "0", "1",
        "v", "1">>
IdOldV2 == <<"s", "o", "l", "v", "-", "i", "n", "t", "/", "9", "9", "0", "1", "0", "0", "1",
        "v", "2">>

\* a chunk as retrieve returns it: the identifier is under metadata
Retrieved(text, pid, title, section) ==
    Dict([text |-> Str(text),
          metadata |-> Dict([paper_id |-> Str(pid), paper_title |-> Str(title),
                             authors |-> Str(<<"A", "n", "n", ",", " ", "B", "o">>),
        section |-> Str(section),
                             chunk_index |-> IntV(0)]),
          id |-> Str(<<"c", "h", "u", "n", "k", "_", "0">>)])

\* a chunk as process_all_papers emits it: every field is at top level
Segmented(text, pid, title, section) ==
    Dict([text |-> Str(text), paper_id |-> Str(pid), paper_title |-> Str(title),
          authors |-> List(<<<<"A", "n", "n">>, <<"B", "o">>>>), section |-> Str(section),
          chunk_index |-> IntV(0)])

\* the records the inputs are drawn from, by position
SourcePool ==
    << Retrieved(<<"x">>, IdNewV1, <<"T", "1">>, Sec1),
       Retrieved(<<"y">>, IdNewV2, <<"T", "1">>, Sec2),
       Retrieved(<<"z">>, IdNewBare, <<"T", "1">>, Sec1),
       Retrieved(<<"x">>, IdOldV1, <<"T", "2">>, Sec1),
       Retrieved(<<"y">>, IdOldV2, <<"T", "2">>, Sec2),
       Segmented(<<"x">>, IdNewV1, <<"T", "1">>, Sec1),
       Segmented(<<"y">>, IdNewV2, <<"T", "1">>, Sec2),
       Dict([title |-> Str(<<"T", "3">>), url |-> Str(<<"h", "t", "t", "p", ":", "/", "/", "x",
        ".", "o", "r", "g", "/", "p">>)]),
       Str(<<"t", "e", "x", "t">>),
       Dict([metadata |-> Str(<<"b", "a", "d">>), link |-> NoneV]),
       Dict([text |-> Str(<<"w">>)]),
       Dict([title |-> Str(<<"T", "4">>), chunk |-> Str(<<"c">>),
             metadata |-> Dict([title |-> Str(<<"T", "5">>),
                                section |-> Str(<<"s">>)])]) >>

PoolIndex == 1..Len(SourcePool)

Records(ix) == [i \in 1..Len(ix) |-> SourcePool[ix[i]]]

ChunksToSourcesCall ==
    /\ ~csDone
    /\ csOut' = chunks_to_sources(List(Records(csIn)))
    /\ csDone' = TRUE
    /\ UNCHANGED <<idxVars, retVars, genVars, segVars, askVars, asmVars, csIn>>

InitSrc ==
    /\ IdleIdx /\ IdleRet /\ IdleGen /\ IdleSeg /\ IdleAsk /\ IdleAsm
    /\ csIn \in UNION {[1..n -> PoolIndex] : n \in 0..MaxRecords}
    /\ csOut = NoSources
    /\ csDone = FALSE

NextSrc == ChunksToSourcesCall

SpecSrc == InitSrc /\ [][NextSrc]_vars

Digits == {"0", "1", "2", "3", "4", "5", "6", "7", "8", "9"}

\* the identifier without a trailing version suffix v<N>
StripVersion(s) ==
    LET S == {i \in 1..Len(s) - 1 :
                 s[i] = "v" /\ \A j \in i + 1..Len(s) : s[j] \in Digits}
    IN  IF S = {} THEN s ELSE SubSeq(s, 1, (CHOOSE i \in S : TRUE) - 1)

\* the paper identifier a record carries, at top level or under metadata/meta
CarriedId(rec) ==
    LET meta == Or(Get(rec, "metadata"), Or(Get(rec, "meta"), Dict(<<>>)))
    IN  IF meta.t /= "dict" THEN NoneV
        ELSE Or(Get(meta, "paper_id"), Or(Get(meta, "id"), Get(rec, "paper_id")))

NoExplicitLink(rec) ==
    LET meta == Or(Get(rec, "metadata"), Or(Get(rec, "meta"), Dict(<<>>)))
    IN  meta.t = "dict" /\ ~Truthy(explicit_link(rec, meta))

\* two records without explicit link whose identifiers differ only in the version suffix
VersionsOfOnePaper(r1, r2) ==
    /\ r1.t = "dict" /\ r2.t = "dict"
    /\ NoExplicitLink(r1) /\ NoExplicitLink(r2)
    /\ CarriedId(r1).t = "str" /\ CarriedId(r2).t = "str"
    /\ Truthy(CarriedId(r1)) /\ Truthy(CarriedId(r2))
    /\ StripVersion(CarriedId(r1).v) = StripVersion(CarriedId(r2).v)

\* C7: two input records of chunks_to_sources that carry no explicit link and whose
\* paper identifiers differ only in the trailing version suffix both resolve to the
\* same synthesized link, which ends in the identifier without the suffix, and the
\* output holds exactly one Source for them.
C7_VersionsCollapse ==
    (csDone /\ Len(csIn) = 2 /\ VersionsOfOnePaper(SourcePool[csIn[1]], SourcePool[csIn[2]])) =>
        LET r1 == SourcePool[csIn[1]]
            r2 == SourcePool[csIn[2]]
            want == Str(ArxivAbs \o StripVersion(CarriedId(r1).v))
        IN  /\ resolve(r1).link = want
            /\ resolve(r2).link = want
            /\ ~csOut.raised
            /\ Len(csOut.sources) = 1
            /\ csOut.sources[1].link = want

\* the version-suffix case on identifiers under metadata that hold no other "v"
C7_Witness ==
    /\ csDone
    /\ csIn = <<1, 2>>
    /\ Len(csOut.sources) = 1
    /\ csOut.sources[1].link = Str(ArxivAbs \o IdNewBare)

\* the indices of the input, in order
Indices(n) == [i \in 1..n |-> i]

SameValue(a, b) == a.t = b.t /\ a.v = b.v

\* the deduplication key of a record: its link if non-empty, else (title, section)
ClaimKey(rec) ==
    LET f == resolve(rec)
    IN  IF f.link.t = "str" /\ Len(f.link.v) > 0 THEN <<"link", f.link.v>>
        ELSE <<"pair", f.paper_title, f.section>>

\* the positions of the key-value records whose key no earlier record has
FirstOfKey(recs) ==
    SelectSeq(Indices(Len(recs)),
              LAMBDA i : /\ recs[i].t = "dict"
                         /\ \A j \in 1..i - 1 :
                               recs[j].t = "dict" => ClaimKey(recs[j]) /= ClaimKey(recs[i]))

\* C15: for any input sequence chunks_to_sources returns, in input order, the
\* Sources of the key-value records whose deduplication key no earlier record
\* has; records that are no key-value maps contribute nothing and an empty input
\* gives an empty list.
C15_FirstOccurrences ==
    csDone =>
        LET recs == Records(csIn)
            keep == FirstOfKey(recs)
        IN  /\ ~csOut.raised
            /\ csOut.sources = [k \in 1..Len(keep) |-> resolve(recs[keep[k]])]

\* a non-map record is skipped and the later record of a repeated key is dropped
C15_Witness ==
    /\ csDone
    /\ csIn = <<9, 1>>
    /\ ~csOut.raised
    /\ Len(csOut.sources) = 1
    /\ csOut.sources[1].link = Str(ArxivAbs \o IdNewBare)

C15_WitnessDropped ==
    /\ csDone
    /\ csIn = <<11, 11>>
    /\ Len(csOut.sources) = 1

\* the top-level aliases of the fields
TitleAliases == {"paper_title", "title", "paper"}
AuthorsAliases == {"authors", "author"}
SectionAliases == {"section", "chunk", "context", "excerpt"}
LinkAliases == {"link", "url", "source"}

\* the value a field gets from an alias: a list of authors is comma-joined
Normalised(x) == IF x.t = "list" THEN Str(Join(CommaSpace, x.v)) ELSE x

\* a non-empty value under a top-level alias makes the resolved value come from a
\* top-level alias
FromTopLevel(rec, aliases, resolved) ==
    (\E a \in aliases : Truthy(Get(rec, a)))
        => \E a \in aliases :
              Truthy(Get(rec, a)) /\ SameValue(resolved, Normalised(Get(rec, a)))

\* C18: every field of a Source is resolved from the top-level aliases before any
\* alias under metadata/meta: a record with a non-empty value under a top-level
\* alias of a field gets that field from a top-level alias.
C18_TopLevelFirst ==
    csDone =>
        \A i \in 1..Len(csIn) :
            LET rec == SourcePool[csIn[i]]
                f == resolve(rec)
            IN  (rec.t = "dict" /\ ~resolve_raises(f)) =>
                    /\ FromTopLevel(rec, TitleAliases, f.paper_title)
                    /\ FromTopLevel(rec, AuthorsAliases, f.authors)
                    /\ FromTopLevel(rec, SectionAliases, f.section)
                    /\ FromTopLevel(rec, LinkAliases, f.link)

\* the title of a record that has one at both levels is the top-level one
C18_Witness ==
    /\ csDone
    /\ csIn = <<12>>
    /\ Len(csOut.sources) = 1
    /\ csOut.sources[1].paper_title = Str(<<"T", "4">>)

\* the identifier is under metadata and the record has no explicit link
NestedIdOnly(rec) ==
    /\ rec.t = "dict"
    /\ NoExplicitLink(rec)
    /\ Get(rec, "metadata").t = "dict"
    /\ Get(Get(rec, "metadata"), "paper_id").t = "str"
    /\ Truthy(Get(Get(rec, "metadata"), "paper_id"))

\* C19: a record without explicit link and with a paper identifier gets the link
\* made of the base URL and the identifier without its trailing version suffix
\* v<N>; nothing before the suffix is removed, also when the identifier holds the
\* letter v elsewhere.
C19_OnlySuffixStripped ==
    (csDone /\ Len(csIn) = 1 /\ NestedIdOnly(SourcePool[csIn[1]])) =>
        /\ Len(csOut.sources) = 1
        /\ csOut.sources[1].link =
              Str(ArxivAbs \o StripVersion(Get(Get(SourcePool[csIn[1]], "metadata"), "paper_id").v))

\* an identifier without suffix is used unchanged
C19_Witness ==
    /\ csDone
    /\ csIn = <<3>>
    /\ csOut.sources[1].link = Str(ArxivAbs \o IdNewBare)

\* the record has its paper_id at top level and no explicit link
TopLevelIdOnly(rec) ==
    /\ rec.t = "dict"
    /\ NoExplicitLink(rec)
    /\ Get(rec, "paper_id").t = "str"
    /\ Truthy(Get(rec, "paper_id"))

\* C20: a record without explicit link whose paper_id is at top level gets the same
\* synthesized link as a record that has the same paper_id under metadata.
C20_LinkFromTopLevelId ==
    (/\ csDone /\ Len(csIn) = 2
     /\ TopLevelIdOnly(SourcePool[csIn[1]])
     /\ NestedIdOnly(SourcePool[csIn[2]])
     /\ SameValue(Get(SourcePool[csIn[1]], "paper_id"),
                  Get(Get(SourcePool[csIn[2]], "metadata"), "paper_id")))
    => /\ SameValue(resolve(SourcePool[csIn[1]]).link, resolve(SourcePool[csIn[2]]).link)
       /\ Truthy(resolve(SourcePool[csIn[1]]).link)

\* the record with the identifier under metadata gets its link
C20_Witness ==
    /\ csDone
    /\ csIn = <<6, 1>>
    /\ Len(csOut.sources) = 2
    /\ csOut.sources[2].link = Str(ArxivAbs \o IdNewBare)

-----------------------------------------------------------------------------
(* the ask endpoint and the service behind it: SpecAsk *)

MaxAskChunks == 2

\* positions of SourcePool the generator's chunk lists are drawn from
AskPool == {1, 2, 8, 9, 10}

\* answers a generator may return: None, "", a text, a value that is no str
AnswerPool == <<NoneV, Str(<<>>), Str(<<"o", "k">>), List(<<<<"o", "k">>>>)>>

ChunkArgs ==
    {[kind |-> "list", ix |-> ix] : ix \in UNION {[1..n -> AskPool] : n \in 0..MaxAskChunks}}
        \cup {NoArg, [kind |-> "int", ix |-> <<>>], [kind |-> "str", ix |-> <<>>]}

GenOutcomes ==
    {Outcome("raise", 0, 1, NoArg), Outcome("scalar", 0, 1, NoArg),
     Outcome("tuple", 0, 1, NoArg)}
        \cup {Outcome("tuple", 1, a, NoArg) : a \in DOMAIN AnswerPool}
        \cup {Outcome("tuple", 2, a, c) : a \in DOMAIN AnswerPool, c \in ChunkArgs}

MockOutcome == Outcome("mock", 2, 1, NoArg)

\* the Python value an outcome stands for
ChunkArg(c) ==
    CASE c.kind = "list" -> List(Records(c.ix))
      [] c.kind = "int" -> IntV(5)
      [] c.kind = "str" -> Str(<<"t", "e", "x", "t">>)
      [] OTHER -> NoneV

GenValue(o) ==
    CASE o.kind = "mock" -> MockResult
      [] o.kind = "raise" -> GenRaise
      [] o.kind = "scalar" -> GenScalar
      [] OTHER -> GenTuple(o.n, AnswerPool[o.answer], ChunkArg(o.chunks))

\* startup_event: the service object exists, its initialisation is scheduled
StartupEvent ==
    /\ service = "absent"
    /\ service' = "present"
    /\ initTask' = "scheduled"
    /\ UNCHANGED <<idxVars, retVars, genVars, segVars, srcVars, asmVars, ai, initEnv, askIn, resp>>

\* the background task runs ScholarService.initialize() in the environment env
InitializeIn(env) ==
    /\ initTask = "scheduled"
    /\ ai' = initialize(env)
    /\ initEnv' = env
    /\ initTask' = "done"
    /\ UNCHANGED <<idxVars, retVars, genVars, segVars, srcVars, asmVars, service, askIn, resp>>

\* ScholarService.initialize: the real generator is importable and its construction
\* succeeds
InitializeReal ==
    \E env \in Envs : env.key /\ env.importable /\ env.constructs /\ InitializeIn(env)

\* ScholarService.initialize: the import fails or the construction raises
InitializeMock ==
    \E env \in Envs : ~(env.key /\ env.importable /\ env.constructs) /\ InitializeIn(env)

\* what self.ai.generate_expert_answer can do, by the class of self.ai
GeneratorResults(a) ==
    IF a = "ScholarAI" THEN GenOutcomes
    ELSE IF a = "MockScholarAI" THEN {MockOutcome}
    ELSE {NotCalled}

\* POST /ask
Ask ==
    /\ \E o \in GeneratorResults(ai) :
          LET r == ask(service, ai, GenValue(o))
          IN  /\ resp' = r
              /\ askIn' = [service |-> service, ai |-> ai, init |-> initTask,
                           gen |-> IF r.called THEN o ELSE NotCalled]
    /\ UNCHANGED <<idxVars, retVars, genVars, segVars, srcVars, asmVars,
                   service, ai, initTask, initEnv>>

InitAsk == IdleIdx /\ IdleRet /\ IdleGen /\ IdleSeg /\ IdleWeb /\ IdleAsm

NextAsk == StartupEvent \/ InitializeReal \/ InitializeMock \/ Ask

SpecAsk == InitAsk /\ [][NextAsk]_vars

Asked == resp.status /= "none"

\* C4: ask never ends in an error: without a service object, with a service whose
\* generator is not initialised, when the generator raises and when it returns a
\* malformed or empty result, the response has a non-empty answer and a source list;
\* in the first three cases the list is empty, and an uninitialised generator is
\* not invoked.
C4_AskNeverFails ==
    Asked =>
        /\ resp.status = "ok"
        /\ Len(resp.answer) > 0
        /\ \A i \in 1..Len(resp.sources) :
              \A f \in {"paper_title", "authors", "section", "link"} :
                 resp.sources[i][f].t \in {"none", "str"}
        /\ (askIn.service = "absent" \/ askIn.ai = "None" \/ askIn.gen.kind = "raise")
              => resp.sources = <<>>
        /\ (askIn.service = "absent" \/ askIn.ai = "None") => ~resp.called
        /\ (askIn.gen.kind = "scalar" \/ (askIn.gen.kind = "tuple" /\ askIn.gen.n = 0))
              => resp.answer = fallback_answer /\ resp.sources = <<>>

C4_Witness ==
    /\ askIn.service = "present"
    /\ askIn.ai = "ScholarAI"
    /\ askIn.gen.kind = "raise"
    /\ resp.called
    /\ resp.answer = fallback_answer
    /\ resp.sources = <<>>

C4_WitnessStarting ==
    /\ askIn.service = "present"
    /\ askIn.ai = "None"
    /\ resp.answer = StartingAnswer
    /\ ~resp.called

\* C26: ScholarService.initialize leaves the service with a usable generator, the
\* real one when it can be imported and constructed and the mock one otherwise
\* (missing credential, failed import, construction that raises); once initialize
\* has completed, ask does not answer with the starting message.
C26_InitializeLeavesGenerator ==
    /\ initTask = "done" =>
          ai = IF initEnv.key /\ initEnv.importable /\ initEnv.constructs
               THEN "ScholarAI" ELSE "MockScholarAI"
    /\ (Asked /\ askIn.init = "done") =>
          /\ resp.called
          /\ resp.answer /= StartingAnswer

\* without the credential the mock generator answers
C26_Witness ==
    /\ initTask = "done"
    /\ ~initEnv.key
    /\ ai = "MockScholarAI"
    /\ askIn.init = "done"
    /\ resp.answer = MockAnswerPrefix \o Question

\* the construction of the real generator raises
C26_WitnessConstruct ==
    /\ initTask = "done"
    /\ initEnv.key /\ initEnv.importable /\ ~initEnv.constructs
    /\ ai = "MockScholarAI"

====
